---- MODULE Spec2Model ----
(***************************************************************************)
(* A model of kenshaw/assetgen: the asset packer (package pack), the image *)
(* step's worker pool (Script.addImages), and the build driver             *)
(* (Script.Execute, Assetgen).                                             *)
(*                                                                         *)
(* Strings are sequences of one-character strings, so that the string      *)
(* operations of the code (TrimLeft, Clean, Base, Ext, slicing with [:6],  *)
(* concatenation) are computed character by character.                     *)
(***************************************************************************)
EXTENDS Integers, Sequences, FiniteSets, TLC

(***************************************************************************)
(* Strings                                                                 *)
(***************************************************************************)

\* The empty string, and Go's zero value of a missing map[string]string key.
EmptyStr == << >>

\* ASCII codes of the characters the modelled names and contents use.
Ascii ==
  ("/" :> 47) @@ ("." :> 46) @@ ("a" :> 97) @@ ("b" :> 98) @@ ("c" :> 99) @@
  ("e" :> 101) @@ ("f" :> 102) @@ ("g" :> 103) @@ ("i" :> 105) @@ ("j" :> 106) @@
  ("m" :> 109) @@ ("n" :> 110) @@ ("o" :> 111) @@ ("p" :> 112) @@ ("s" :> 115) @@
  ("t" :> 116) @@ ("x" :> 120) @@ ("y" :> 121)

HexDigits == <<"0", "1", "2", "3", "4", "5", "6", "7",
               "8", "9", "a", "b", "c", "d", "e", "f">>

\* s[i:] of Go, with i counted from 0.
SliceFrom(s, i) == SubSeq(s, i + 1, Len(s))

\* s[:i] of Go; defined only when i <= len(s) (Go panics otherwise).
SliceTo(s, i) == SubSeq(s, 1, i)

\* strings.TrimLeft(s, "/"): s without its leading slashes.
RECURSIVE TrimLeftSlash(_)
TrimLeftSlash(s) ==
  IF s # EmptyStr /\ Head(s) = "/" THEN TrimLeftSlash(Tail(s)) ELSE s

\* The index of the last "/" of s, 0 when there is none.
RECURSIVE LastSlash(_)
LastSlash(s) ==
  IF s = EmptyStr THEN 0
  ELSE IF s[Len(s)] = "/" THEN Len(s)
  ELSE LastSlash(SubSeq(s, 1, Len(s) - 1))

\* The path elements of s: the pieces between slashes, empty ones included.
RECURSIVE SplitSlash(_, _, _)
SplitSlash(s, cur, acc) ==
  IF s = EmptyStr THEN Append(acc, cur)
  ELSE IF Head(s) = "/" THEN SplitSlash(Tail(s), EmptyStr, Append(acc, cur))
  ELSE SplitSlash(Tail(s), Append(cur, Head(s)), acc)

\* "/" + elems joined by "/"; "/" alone for no elements.
RECURSIVE JoinRooted(_)
JoinRooted(elems) ==
  IF elems = << >> THEN <<"/">>
  ELSE IF Len(elems) = 1 THEN <<"/">> \o elems[1]
  ELSE <<"/">> \o elems[1] \o JoinRooted(Tail(elems))

\* filepath.Clean for a rooted path without ".." elements: empty and "."
\* elements are dropped, slashes are single, no trailing slash.
Clean(s) ==
  LET elems == SplitSlash(s, EmptyStr, << >>)
      kept  == SelectSeq(elems, LAMBDA e : e # EmptyStr /\ e # <<".">>)
  IN  JoinRooted(kept)

\* filepath.Dir: the cleaned path up to the last slash.
Dir(s) == Clean(SubSeq(s, 1, LastSlash(s)))

\* filepath.Base of a clean path: the last element.
Base(s) == IF s = <<"/">> THEN s ELSE SubSeq(s, LastSlash(s) + 1, Len(s))

\* filepath.Ext: the suffix of the last element that starts at its last dot.
RECURSIVE ExtFrom(_, _)
ExtFrom(s, i) ==
  IF i < 1 \/ s[i] = "/" THEN EmptyStr
  ELSE IF s[i] = "." THEN SubSeq(s, i, Len(s))
  ELSE ExtFrom(s, i - 1)

Ext(s) == ExtFrom(s, Len(s))

\* The proper ancestors of a clean path, "/" included, the path itself not.
RECURSIVE Ancestors(_)
Ancestors(s) ==
  IF s = <<"/">> THEN {}
  ELSE {Dir(s)} \cup Ancestors(Dir(s))

(***************************************************************************)
(* crypto/md5, as a stand-in: a 16-byte digest whose first three bytes are *)
(* a 24-bit polynomial hash of the input and whose other bytes derive from *)
(* them and the input's length.  Like md5 it is a fixed function of the    *)
(* bytes alone.                                                            *)
(***************************************************************************)
RECURSIVE PolyHash(_, _)
PolyHash(s, acc) ==
  IF s = EmptyStr THEN acc
  ELSE PolyHash(Tail(s), (acc * 131 + Ascii[Head(s)]) % 16777216)

md5Sum(buf) ==
  LET d == PolyHash(buf, 5381)
      b0 == d % 256
      b1 == (d \div 256) % 256
      b2 == (d \div 65536) % 256
  IN  [i \in 1..16 |->
         IF i = 1 THEN b0 ELSE IF i = 2 THEN b1 ELSE IF i = 3 THEN b2
         ELSE (b0 * i + b1 + b2 * 7 + Len(buf) * 13 + i) % 256]

\* fmt.Sprintf("%x", sum) and hex.EncodeToString(sum[:]): two lower-case
\* hexadecimal digits per byte.
RECURSIVE hexEncode(_)
hexEncode(bytes) ==
  IF bytes = << >> THEN EmptyStr
  ELSE <<HexDigits[(Head(bytes) \div 16) + 1], HexDigits[(Head(bytes) % 16) + 1]>>
       \o hexEncode(Tail(bytes))

md5hex(buf) == hexEncode(md5Sum(buf))

(***************************************************************************)
(* Inputs                                                                  *)
(***************************************************************************)

\* The names handed to Pack: one file spelled with no, one and two leading
\* slashes, one file in a directory spelled clean and spelled with a "."
\* element and a doubled slash, and a file named like the manifest.
NameA0 == <<"a", ".", "j", "s">>
NameA1 == <<"/">> \o NameA0
NameA2 == <<"/", "/">> \o NameA0
NameB  == <<"/", "c", "/", "b", ".", "j", "s">>
NameBD == <<"/", "c", "/", ".", "/", "/", "b", ".", "j", "s">>

\* Flags.PackManifest's default, handed to pack.WithManifest.
ManifestName == <<"m", "a", "n", "i", "f", "e", "s", "t", ".", "j", "s", "o", "n">>

NameM == <<"/", "c", "/">> \o ManifestName

RawNames == {NameA0, NameA1, NameA2, NameB, NameBD, NameM}

\* The payloads handed to Pack.
Contents == {<<"x">>, <<"x", "y">>}

(***************************************************************************)
(* Bounds                                                                  *)
(***************************************************************************)

\* Goroutines that call into one Packer concurrently.
NProcs == 2

\* Packer calls (Pack or Manifest) started in one run.
MaxCalls == 2

\* Flags.Workers: the worker goroutines of the image step.
NWorkers == 2

\* Runs of the image step over one cache directory.
MaxRuns == 2

Procs == 1..NProcs

Workers == 1..NWorkers

(***************************************************************************)
(* State                                                                   *)
(***************************************************************************)

VARIABLES
  files,      \* Pack.fs: the store's regular files, clean path -> bytes
  h,          \* Pack.h: name -> hex md5 of the packed bytes
  writer,     \* Pack.RWMutex: the process holding the write lock, 0 if none
  readers,    \* Pack.RWMutex: the processes holding the read lock
  ppc,        \* where each process is inside Pack or Manifest
  pname,      \* Pack's local name (after normalisation)
  pbuf,       \* Pack's local buf
  visited,    \* Manifest: the files the walk has visited
  m,          \* Manifest's local map m
  ret,        \* what each process's last call returned
  calls,      \* Packer calls started so far
  crashed,    \* an unrecovered panic has ended the program
  lastWrite,  \* history: per store path, the last Pack that wrote it
  lastPacked, \* history: per name, the bytes of its last successful Pack
  plan,       \* a caller's fixed set of (name, content) pairs to pack
  todo,       \* the names of plan not packed yet
  src,        \* the image directory: candidate file -> bytes
  cmd5,       \* the cache: candidate -> content of its .md5 file
  cout,       \* the cache: candidate -> bytes of its optimized output
  runs,       \* runs of the image step started so far
  spc,        \* where the image step is
  widx,       \* the walk's position in the directory listing
  all,        \* addImages' local all
  changed,    \* addImages' local changed
  ch,         \* the channel ch: the items not received yet (it is closed)
  wpc,        \* where each worker is
  witem,      \* the item each worker is optimizing
  wret,       \* what each worker's function returned
  ctxDone,    \* ctxt of errgroup.WithContext has been cancelled
  egErr,      \* errgroup.Group's err
  stepErr,    \* what the step returned
  packIdx,    \* the packing loop's position in all
  firstFailed, \* history: the item whose transformation failed first
  xformed,    \* history: the items handed to optimizeImage in this run, in order
  epc,        \* where Assetgen is: Execute's loop, a step, the finalisation
  ei,         \* Execute: the steps of s.exec the loop has been through
  started,    \* history: the steps in the order in which they were called
  sret,       \* history: per step, what it has returned
  lastErr,    \* Execute's local err
  exret,      \* what Execute returned
  finalView,  \* the store paths the finalisation found
  packedBy,   \* history: the store paths the steps have packed
  registry,   \* IpcServer.m: the names of the registered callbacks
  srvCtx,     \* the server's ctxt has been cancelled
  lpc,        \* where the accept loop is
  lclosed,    \* the listener has been closed
  sigpc,      \* where the signal watcher is
  cst,        \* per connection: not made, in the backlog, accepted, closed
  hpc,        \* per connection: where its handler is
  lines,      \* per connection: the lines sent and not yet read
  nsent,      \* per connection: how many lines the client has sent
  req,        \* history: per connection, the line its handler has read
  resp,       \* per connection: the responses written to it
  invoked,    \* history: per connection, the callbacks its handler called
  accepted,   \* history: the connections in the order of their accept
  cclosed,    \* the connections whose client has closed its end
  tmpDir,     \* the directory of NewIpcServer's ioutil.TempDir
  deferred,   \* Assetgen has registered its deferred cancel and RemoveAll
  gret,       \* what Assetgen returned
  aq,         \* the asset callback's argument while it runs
  asnap,      \* history: the names packed when the running query began
  ares,       \* what the asset callback returned last
  fwd,        \* the map of the caller's Manifest call
  rev,        \* the map of the caller's ManifestInverted call
  inverting,  \* the caller has not called, is inside, is back from ManifestInverted
  flagWorkers, \* Flags.Workers
  exec,        \* Script.exec: the registered steps, in order
  fin,         \* findFiles: the arguments of the outermost call and the tree's link
  fstack,      \* findFiles: the calls in progress, the innermost last
  visitedPaths, \* findFiles: the keys of visitedPaths
  toc,         \* findFiles: *toc
  entered,     \* history: the real directories whose entries were read, in order
  fret         \* what the outermost findFiles returned

packVars == <<files, h, writer, readers, ppc, pname, pbuf, visited, m, ret,
              calls, crashed, lastWrite, lastPacked>>

planVars == <<plan, todo>>

poolVars == <<src, cmd5, cout, runs, spc, widx, all, changed, ch, wpc, witem,
              wret, ctxDone, egErr, stepErr, packIdx, firstFailed, xformed>>

execVars == <<epc, ei, started, sret, lastErr, exret, finalView, packedBy>>

ipcVars == <<registry, cclosed, srvCtx, lpc, lclosed, sigpc, cst, hpc, lines, nsent, req,
             resp, invoked, accepted>>

genVars == <<tmpDir, deferred, gret>>

assetVars == <<aq, asnap, ares>>

invVars == <<fwd, rev, inverting>>

findVars == <<fin, fstack, visitedPaths, toc, entered, fret>>

moreVars == <<ipcVars, genVars, assetVars, invVars, flagWorkers, exec, findVars>>

vars == <<packVars, planVars, poolVars, execVars, moreVars>>

(***************************************************************************)
(* Packer: helpers                                                         *)
(***************************************************************************)

\* Go error values: nil, context.Canceled, an I/O error, and "no value yet".
NilErr == [kind |-> "nil"]

Canceled == [kind |-> "canceled"]

IoErr == [kind |-> "io"]

NoErr == [kind |-> "none"]

\* A function with one more (or one changed) entry.
MapPut(f, k, v) == [x \in DOMAIN f \cup {k} |-> IF x = k THEN v ELSE f[x]]

NoMap == [x \in {} |-> EmptyStr]

\* Go's map read: the zero value "" for a key that is not there.
MapGet(f, k) == IF k \in DOMAIN f THEN f[k] ELSE EmptyStr

\* A Pack that would keep the name as it was passed.
PackNameRaw(name) == name

\* name = "/" + strings.TrimLeft(name, "/")
PackName(name) == <<"/">> \o TrimLeftSlash(name)

\* The store path a name denotes: afero cleans every path it is given.
StorePath(name) == Clean(name)

\* The store holds a directory at path: some file lies below it.
IsDirectory(fs, path) == \E f \in DOMAIN fs : path \in Ancestors(f)

\* p.fs.MkdirAll(filepath.Dir(name)) can succeed: no file is in the way.
MkdirAllPossible(fs, name) ==
  LET d == Dir(name) IN ({d} \cup Ancestors(d)) \cap DOMAIN fs = {}

\* afero.WriteFile's OpenFile(O_CREATE|O_TRUNC) can succeed.
OpenPossible(fs, name) ==
  StorePath(name) # <<"/">> /\ ~IsDirectory(fs, StorePath(name))

\* A Pack that would record the hash under the path the store cleans to.
HashKeyClean(name) == StorePath(name)

\* p.h[name] = ...: the key under which Pack records the hash is the
\* normalised name as it is, uncleaned.
HashKey(name) == name

\* A Pack that would record the hash of the name.
HashOfName(name, buf) == md5hex(name)

\* fmt.Sprintf("%x", md5.Sum(buf)): the hash Pack records.
RecordedHash(name, buf) == md5hex(buf)

\* A Manifest that would hash the walked path as it is.
ManifestHashedNameRaw(n) == n

\* md5.Sum([]byte(strings.TrimLeft(n, "/"))): the name Manifest hashes for
\* the first segment.
ManifestHashedName(n) == TrimLeftSlash(n)

\* m[n] = fh[:6] + "." + p.h[n][:6] + filepath.Ext(n)
Fingerprint(n, hn) ==
  SliceTo(md5hex(ManifestHashedName(n)), 6) \o <<".">> \o SliceTo(hn, 6) \o Ext(n)

\* case fi.IsDir() || filepath.Base(n) == p.manifest: return nil
ManifestSkips(n) == Base(n) = ManifestName

\* The strict prefixes of buf: what a failed Write may leave in the file.
StrictPrefixes(buf) == {SubSeq(buf, 1, k) : k \in 0..(Len(buf) - 1)}

(***************************************************************************)
(* Packer: Pack (pack.go, Pack.Pack) and Manifest (Pack.Manifest)          *)
(***************************************************************************)

InitPacker ==
  /\ files = NoMap
  /\ h = NoMap
  /\ writer = 0
  /\ readers = {}
  /\ ppc = [p \in Procs |-> "idle"]
  /\ pname = [p \in Procs |-> EmptyStr]
  /\ pbuf = [p \in Procs |-> EmptyStr]
  /\ visited = [p \in Procs |-> {}]
  /\ m = [p \in Procs |-> NoMap]
  /\ ret = [p \in Procs |-> [op |-> "none"]]
  /\ calls = 0
  /\ crashed = FALSE
  /\ lastWrite = NoMap
  /\ lastPacked = NoMap

\* pack.NewBase over the emptied dist directory: a new, empty Packer.
NewPacker ==
  /\ files' = NoMap
  /\ h' = NoMap
  /\ writer' = 0
  /\ readers' = {}
  /\ ppc' = [p \in Procs |-> "idle"]
  /\ pname' = [p \in Procs |-> EmptyStr]
  /\ pbuf' = [p \in Procs |-> EmptyStr]
  /\ visited' = [p \in Procs |-> {}]
  /\ m' = [p \in Procs |-> NoMap]
  /\ ret' = [p \in Procs |-> [op |-> "none"]]
  /\ calls' = 0
  /\ crashed' = FALSE
  /\ lastWrite' = NoMap
  /\ lastPacked' = NoMap

\* sync.RWMutex: Lock waits for the writer and every reader to leave.
CanLock == writer = 0 /\ readers = {}

\* A read lock that would not wait for the writer.
CanRLockUnguarded == TRUE

\* sync.RWMutex: RLock waits for the writer to leave.
CanRLock == writer = 0

\* Pack: p.Lock(); name = "/" + TrimLeft(name, "/"); buf = ReadAll(r).
PackLock(p, name, buf) ==
  /\ ~crashed /\ ppc[p] = "idle"
  /\ CanLock
  /\ writer' = p
  /\ pname' = [pname EXCEPT ![p] = PackName(name)]
  /\ pbuf' = [pbuf EXCEPT ![p] = buf]
  /\ ppc' = [ppc EXCEPT ![p] = "pack_store"]
  /\ calls' = calls + 1
  /\ UNCHANGED <<files, h, readers, visited, m, ret, crashed, lastWrite, lastPacked>>

\* Pack: MkdirAll fails, or WriteFile's OpenFile fails: the store keeps its
\* files; return err, and the deferred p.Unlock().
PackStoreRefused(p) ==
  /\ ~crashed /\ ppc[p] = "pack_store"
  /\ writer' = 0
  /\ ppc' = [ppc EXCEPT ![p] = "idle"]
  /\ pname' = [pname EXCEPT ![p] = EmptyStr]
  /\ pbuf' = [pbuf EXCEPT ![p] = EmptyStr]
  /\ ret' = [ret EXCEPT ![p] = [op |-> "pack", err |-> TRUE]]
  /\ UNCHANGED <<files, h, readers, visited, m, calls, crashed, lastWrite, lastPacked>>

\* Pack: WriteFile has created or truncated the file and its Write fails:
\* the file keeps a strict prefix of buf; return err, and the deferred
\* p.Unlock().
PackWriteFails(p, part) ==
  /\ ~crashed /\ ppc[p] = "pack_store"
  /\ MkdirAllPossible(files, pname[p]) /\ OpenPossible(files, pname[p])
  /\ part \in StrictPrefixes(pbuf[p])
  /\ files' = MapPut(files, StorePath(pname[p]), part)
  /\ lastWrite' = MapPut(lastWrite, StorePath(pname[p]), [name |-> pname[p], ok |-> FALSE])
  /\ writer' = 0
  /\ ppc' = [ppc EXCEPT ![p] = "idle"]
  /\ pname' = [pname EXCEPT ![p] = EmptyStr]
  /\ pbuf' = [pbuf EXCEPT ![p] = EmptyStr]
  /\ ret' = [ret EXCEPT ![p] = [op |-> "pack", err |-> TRUE]]
  /\ UNCHANGED <<h, readers, visited, m, calls, crashed, lastPacked>>

\* Pack: MkdirAll and WriteFile succeed: the file holds buf.
PackWritten(p) ==
  /\ ~crashed /\ ppc[p] = "pack_store"
  /\ MkdirAllPossible(files, pname[p]) /\ OpenPossible(files, pname[p])
  /\ files' = MapPut(files, StorePath(pname[p]), pbuf[p])
  /\ lastWrite' = MapPut(lastWrite, StorePath(pname[p]), [name |-> pname[p], ok |-> TRUE])
  /\ ppc' = [ppc EXCEPT ![p] = "pack_hash"]
  /\ UNCHANGED <<h, writer, readers, pname, pbuf, visited, m, ret, calls, crashed, lastPacked>>

\* Pack: p.h[name] = fmt.Sprintf("%x", md5.Sum(buf)); return nil, and the
\* deferred p.Unlock().
PackHash(p) ==
  /\ ~crashed /\ ppc[p] = "pack_hash"
  /\ h' = MapPut(h, HashKey(pname[p]), RecordedHash(pname[p], pbuf[p]))
  /\ lastPacked' = MapPut(lastPacked, HashKey(pname[p]), pbuf[p])
  /\ writer' = 0
  /\ ppc' = [ppc EXCEPT ![p] = "idle"]
  /\ pname' = [pname EXCEPT ![p] = EmptyStr]
  /\ pbuf' = [pbuf EXCEPT ![p] = EmptyStr]
  /\ ret' = [ret EXCEPT ![p] = [op |-> "pack", err |-> FALSE]]
  /\ UNCHANGED <<files, readers, visited, m, calls, crashed, lastWrite>>

\* Manifest: p.RLock(); m := make(map[string]string); the walk starts.
ManifestRLock(p) ==
  /\ ~crashed /\ ppc[p] = "idle"
  /\ CanRLock
  /\ readers' = readers \cup {p}
  /\ visited' = [visited EXCEPT ![p] = {}]
  /\ m' = [m EXCEPT ![p] = NoMap]
  /\ ppc' = [ppc EXCEPT ![p] = "man_walk"]
  /\ calls' = calls + 1
  /\ UNCHANGED <<files, h, writer, pname, pbuf, ret, crashed, lastWrite, lastPacked>>

\* Manifest: the walk calls back for a file it skips (the manifest's name).
ManifestSkip(p, n) ==
  /\ ~crashed /\ ppc[p] = "man_walk"
  /\ n \in DOMAIN files \ visited[p]
  /\ ManifestSkips(n)
  /\ visited' = [visited EXCEPT ![p] = @ \cup {n}]
  /\ UNCHANGED <<files, h, writer, readers, ppc, pname, pbuf, m, ret, calls,
                 crashed, lastWrite, lastPacked>>

\* Manifest: the walk calls back for a file; m[n] = fh[:6] + "." + p.h[n][:6] + ext.
ManifestVisit(p, n) ==
  /\ ~crashed /\ ppc[p] = "man_walk"
  /\ n \in DOMAIN files \ visited[p]
  /\ ~ManifestSkips(n)
  /\ Len(MapGet(h, n)) >= 6
  /\ visited' = [visited EXCEPT ![p] = @ \cup {n}]
  /\ m' = [m EXCEPT ![p] = MapPut(@, n, Fingerprint(n, MapGet(h, n)))]
  /\ UNCHANGED <<files, h, writer, readers, ppc, pname, pbuf, ret, calls,
                 crashed, lastWrite, lastPacked>>

\* Manifest: p.h[n][:6] with p.h[n] shorter than 6: slice bounds out of
\* range.  The deferred RUnlock runs and the panic ends the program.
ManifestPanic(p, n) ==
  /\ ~crashed /\ ppc[p] = "man_walk"
  /\ n \in DOMAIN files \ visited[p]
  /\ ~ManifestSkips(n)
  /\ Len(MapGet(h, n)) < 6
  /\ crashed' = TRUE
  /\ readers' = readers \ {p}
  /\ ppc' = [ppc EXCEPT ![p] = "panicked"]
  /\ ret' = [ret EXCEPT ![p] = [op |-> "manifest", panic |-> TRUE, at |-> n]]
  /\ UNCHANGED <<files, h, writer, pname, pbuf, visited, m, calls, lastWrite, lastPacked>>

\* Manifest: the walk hands the callback an error (case err != nil); Manifest
\* returns (nil, err).
ManifestWalkErr(p) ==
  /\ ~crashed /\ ppc[p] = "man_walk"
  /\ readers' = readers \ {p}
  /\ ppc' = [ppc EXCEPT ![p] = "idle"]
  /\ ret' = [ret EXCEPT ![p] = [op |-> "manifest", panic |-> FALSE, err |-> TRUE]]
  /\ visited' = [visited EXCEPT ![p] = {}]
  /\ m' = [m EXCEPT ![p] = NoMap]
  /\ UNCHANGED <<files, h, writer, pname, pbuf, calls, crashed, lastWrite, lastPacked>>

\* Manifest: the walk has visited every file; return m, nil (deferred RUnlock).
ManifestReturn(p) ==
  /\ ~crashed /\ ppc[p] = "man_walk"
  /\ visited[p] = DOMAIN files
  /\ readers' = readers \ {p}
  /\ ppc' = [ppc EXCEPT ![p] = "idle"]
  /\ ret' = [ret EXCEPT ![p] = [op |-> "manifest", panic |-> FALSE, err |-> FALSE,
                                 map |-> m[p]]]
  /\ visited' = [visited EXCEPT ![p] = {}]
  /\ m' = [m EXCEPT ![p] = NoMap]
  /\ UNCHANGED <<files, h, writer, pname, pbuf, calls, crashed, lastWrite, lastPacked>>

\* A caller with no fixed plan.
InitNoPlan == plan = NoMap /\ todo = {}

\* No image step.
InitNoPool ==
  /\ src = NoMap /\ cmd5 = NoMap /\ cout = NoMap
  /\ runs = 0 /\ spc = "idle" /\ widx = 0
  /\ all = << >> /\ changed = << >> /\ ch = << >>
  /\ wpc = [w \in Workers |-> "exit"]
  /\ witem = [w \in Workers |-> EmptyStr]
  /\ wret = [w \in Workers |-> NoErr]
  /\ ctxDone = FALSE /\ egErr = NilErr /\ stepErr = NoErr /\ packIdx = 0
  /\ firstFailed = EmptyStr
  /\ xformed = << >>

\* What a step of the Packer alone leaves unchanged.
\* The number of steps the script has registered in s.exec.
NSteps == 3

Steps == 1..NSteps

\* No script.
InitNoExec ==
  /\ epc = "off" /\ ei = 0 /\ started = << >>
  /\ sret = [i \in Steps |-> NoErr]
  /\ lastErr = NoErr /\ exret = NoErr
  /\ finalView = {} /\ packedBy = {}

\* The client connections of the callback server.
Conns == {"c1", "c2"}

\* No callback server.
InitNoIpc ==
  /\ registry = {} /\ srvCtx = FALSE /\ lpc = "off" /\ lclosed = FALSE
  /\ sigpc = "off"
  /\ cst = [c \in Conns |-> "none"]
  /\ hpc = [c \in Conns |-> "none"]
  /\ lines = [c \in Conns |-> << >>]
  /\ nsent = [c \in Conns |-> 0]
  /\ req = [c \in Conns |-> << >>]
  /\ resp = [c \in Conns |-> << >>]
  /\ invoked = [c \in Conns |-> << >>]
  /\ accepted = << >>
  /\ cclosed = {}

\* Assetgen's own bookkeeping is not looked at.
InitNoGen == tmpDir = "none" /\ deferred = FALSE /\ gret = NoErr

\* No asset query.
InitNoAsset == aq = EmptyStr /\ asnap = {} /\ ares = [op |-> "none"]

\* No ManifestInverted call.
InitNoInv == fwd = NoMap /\ rev = NoMap /\ inverting = "no"

\* No findFiles call.
InitNoFind ==
  /\ fin = [dir |-> EmptyStr] /\ fstack = << >> /\ visitedPaths = {}
  /\ toc = << >> /\ entered = << >> /\ fret = "none"

InitNoMore == InitNoIpc /\ InitNoGen /\ InitNoAsset /\ InitNoInv

notPacker == <<planVars, poolVars, execVars, moreVars>>

PackerStep(p) ==
  \/ \E name \in RawNames, buf \in Contents :
        calls < MaxCalls /\ PackLock(p, name, buf) /\ UNCHANGED notPacker
  \/ PackStoreRefused(p) /\ UNCHANGED notPacker
  \/ \E part \in StrictPrefixes(pbuf[p]) : PackWriteFails(p, part) /\ UNCHANGED notPacker
  \/ PackWritten(p) /\ UNCHANGED notPacker
  \/ PackHash(p) /\ UNCHANGED notPacker
  \/ calls < MaxCalls /\ ManifestRLock(p) /\ UNCHANGED notPacker
  \/ \E n \in DOMAIN files : ManifestSkip(p, n) /\ UNCHANGED notPacker
  \/ \E n \in DOMAIN files : ManifestVisit(p, n) /\ UNCHANGED notPacker
  \/ \E n \in DOMAIN files : ManifestPanic(p, n) /\ UNCHANGED notPacker
  \/ ManifestWalkErr(p) /\ UNCHANGED notPacker
  \/ ManifestReturn(p) /\ UNCHANGED notPacker

NextPack == \E p \in Procs : PackerStep(p)

\* Concurrent callers of one Packer.
InitPack ==
  /\ InitPacker /\ InitNoPlan /\ InitNoPool /\ InitNoExec /\ InitNoMore
  /\ flagWorkers = NWorkers
  /\ exec = << >>
  /\ InitNoFind

SpecPack == InitPack /\ [][NextPack]_vars

(***************************************************************************)
(* Properties of the Packer under concurrent callers (SpecPack)            *)
(***************************************************************************)

\* A process is inside Pack's critical section (between Lock and Unlock).
InPackCritical(p) == ppc[p] \in {"pack_store", "pack_hash"}

\* A process is inside Manifest's walk (between RLock and RUnlock).
InWalk(p) == ppc[p] = "man_walk"

\* A Pack has written the file at path and has not recorded its hash yet.
HashPending(path) ==
  \E p \in Procs : ppc[p] = "pack_hash" /\ StorePath(pname[p]) = path

\* C4: at most one Pack is inside its critical section, no Manifest walk
\* overlaps a Pack, and so no walk runs while a file written by a Pack is
\* still waiting for its hash to be recorded.
PackerLocking ==
  /\ \A p, q \in Procs : InPackCritical(p) /\ InPackCritical(q) => p = q
  /\ \A p, q \in Procs : InPackCritical(p) => ~InWalk(q)
  /\ \A q \in Procs : InWalk(q) => \A n \in DOMAIN files : ~HashPending(n)
  /\ (writer # 0) = (\E p \in Procs : InPackCritical(p))

\* C4 witness: two Manifest walks overlap.
WalksOverlap ==
  \E p, q \in Procs : p # q /\ InWalk(p) /\ InWalk(q) /\ readers = {p, q}

LastWriteWasPackOf(n) ==
  /\ StorePath(n) \in DOMAIN lastWrite
  /\ lastWrite[StorePath(n)] = [name |-> n, ok |-> TRUE]

FailedPackIsLocal ==
  [][\A p \in Procs :
       (ppc[p] = "pack_store" /\ ppc'[p] = "idle") =>
         \A k \in DOMAIN h \ {pname[p]} :
           /\ MapGet(h', k) = h[k]
           /\ MapGet(files', Clean(k)) = MapGet(files, Clean(k))]_vars

\* C8: Manifest never panics.
ManifestNeverPanics == ~crashed

(***************************************************************************)
(* One caller that packs a fixed set of (name, content) pairs in any order *)
(* and then asks for the manifest (SpecDet)                                *)
(***************************************************************************)

\* The pairs of one plan.
MaxPlan == 3

\* The sets of pairs whose names stay pairwise distinct once Pack has
\* normalised them.
Plans ==
  UNION { [S -> Contents] :
          S \in { T \in SUBSET RawNames :
                    /\ Cardinality(T) \in 1..MaxPlan
                    /\ \A a, b \in T : PackName(a) = PackName(b) => a = b } }

InitDet ==
  /\ InitPacker /\ InitNoPool /\ InitNoExec /\ InitNoMore
  /\ flagWorkers = NWorkers
  /\ exec = << >>
  /\ InitNoFind
  /\ plan \in Plans /\ todo = DOMAIN plan

\* The caller packs one of the pairs it has not packed yet.
DetPack(name) ==
  /\ name \in todo
  /\ PackLock(1, name, plan[name])
  /\ todo' = todo \ {name}
  /\ plan' = plan
  /\ UNCHANGED <<poolVars, execVars, moreVars>>

\* The orders in which a range over the map may yield its keys.
Orders(S) ==
  {sq \in [1..Cardinality(S) -> S] : \A i, j \in DOMAIN sq : sq[i] = sq[j] => i = j}

\* A loop that would copy the entries without swapping key and value.
InvertInForward(mm, order) == mm

\* rev := make(map); for v, k := range m { rev[k] = v }, the range yielding
\* the keys in the given order.
RECURSIVE InvertIn(_, _)
InvertIn(mm, order) ==
  IF order = << >> THEN NoMap
  ELSE MapPut(InvertIn(mm, SubSeq(order, 1, Len(order) - 1)),
              mm[order[Len(order)]], order[Len(order)])

\* The caller has packed every pair and calls Manifest, once.
DetManifest ==
  /\ todo = {}
  /\ ret[1].op # "manifest"
  /\ ManifestRLock(1)
  /\ UNCHANGED notPacker

\* The caller keeps the map Manifest returned and calls ManifestInverted,
\* which calls p.Manifest().
DetInvert ==
  /\ inverting = "no"
  /\ ret[1].op = "manifest" /\ ~ret[1].panic
  /\ fwd' = ret[1].map
  /\ inverting' = "yes"
  /\ rev' = rev
  /\ ManifestRLock(1)
  /\ UNCHANGED <<planVars, poolVars, execVars, ipcVars, genVars, assetVars, flagWorkers, exec, findVars>>

\* ManifestInverted: p.Manifest() returns m; the loop builds rev; return.
DetInverted(order) ==
  /\ inverting = "yes"
  /\ order \in Orders(DOMAIN m[1])
  /\ ManifestReturn(1)
  /\ rev' = InvertIn(m[1], order)
  /\ inverting' = "done"
  /\ fwd' = fwd
  /\ UNCHANGED <<planVars, poolVars, execVars, ipcVars, genVars, assetVars, flagWorkers, exec, findVars>>

NextDet ==
  \/ \E name \in todo : DetPack(name)
  \/ PackWritten(1) /\ UNCHANGED notPacker
  \/ PackHash(1) /\ UNCHANGED notPacker
  \/ DetManifest
  \/ \E n \in DOMAIN files : ManifestSkip(1, n) /\ UNCHANGED notPacker
  \/ \E n \in DOMAIN files : ManifestVisit(1, n) /\ UNCHANGED notPacker
  \/ \E n \in DOMAIN files : ManifestPanic(1, n) /\ UNCHANGED notPacker
  \/ inverting = "no" /\ ManifestReturn(1) /\ UNCHANGED notPacker
  \/ DetInvert
  \/ \E order \in Orders(DOMAIN files) : DetInverted(order)

SpecDet == InitDet /\ [][NextDet]_vars

\* The store paths the pairs of a plan are written to.
PlanPaths(pl) == {StorePath(PackName(x)) : x \in DOMAIN pl}

\* The pairs of a plan whose normalised name is exactly the path q.
PlanKeyed(pl, q) == {x \in DOMAIN pl : PackName(x) = q}

\* What a plan alone says Manifest does, whatever the order of the calls:
\* it panics when a file that it does not skip has no pair spelled like its
\* path, and otherwise returns one fingerprint per such file.
PlanPanics(pl) ==
  \E q \in PlanPaths(pl) : ~ManifestSkips(q) /\ PlanKeyed(pl, q) = {}

PlanManifest(pl) ==
  [q \in {r \in PlanPaths(pl) : ~ManifestSkips(r)} |->
     Fingerprint(q, md5hex(pl[CHOOSE x \in PlanKeyed(pl, q) : TRUE]))]

\* C5: whatever the order of the Pack calls and of the walk, Manifest's
\* outcome is the one the set of pairs alone determines.
ManifestDeterminism ==
  (todo = {} /\ ret[1].op = "manifest") =>
    IF PlanPanics(plan) THEN ret[1].panic
    ELSE ~ret[1].panic /\ ret[1].map = PlanManifest(plan)

\* C5 witness: three pairs, two of them spellings of one store path, have
\* been packed and Manifest has returned a map of two entries.
ThreePairsPacked ==
  /\ todo = {} /\ DOMAIN plan = {NameA0, NameB, NameBD}
  /\ plan[NameB] # plan[NameBD]
  /\ ret[1].op = "manifest" /\ ~ret[1].panic
  /\ DOMAIN ret[1].map = {NameA1, NameB}

\* C20: when the fingerprints of Manifest() are pairwise distinct, inverting
\* the map of ManifestInverted() gives back exactly the map of Manifest(),
\* and the two maps have the same number of entries.
ManifestRoundTrip ==
  (/\ inverting = "done"
   /\ \A a, b \in DOMAIN fwd : fwd[a] = fwd[b] => a = b) =>
    /\ {<<rev[f], f>> : f \in DOMAIN rev} = {<<n, fwd[n]>> : n \in DOMAIN fwd}
    /\ Cardinality(DOMAIN rev) = Cardinality(DOMAIN fwd)

\* C20 witness: ManifestInverted has returned a map of two entries for a
\* manifest of two entries.
InvertedTwoEntries ==
  /\ inverting = "done"
  /\ Cardinality(DOMAIN fwd) = 2
  /\ Cardinality(DOMAIN rev) = 2

(***************************************************************************)
(* The same caller with names whose hashes share their first six digits    *)
(* (SpecColl)                                                              *)
(***************************************************************************)

\* Two names with one extension whose md5 sums begin with the same three
\* bytes.
NameP == <<"/", "a", "e", "s", "y", "e", ".", "j", "s">>

NameQ == <<"/", "b", "a", "b", "a", "a", ".", "j", "s">>

CollNames == RawNames \cup {NameP, NameQ}

CollPlans ==
  UNION { [S -> Contents] :
          S \in { T \in SUBSET CollNames : Cardinality(T) \in 1..MaxPlan } }

InitColl ==
  /\ InitPacker /\ InitNoPool /\ InitNoExec /\ InitNoMore
  /\ flagWorkers = NWorkers
  /\ exec = << >>
  /\ InitNoFind
  /\ plan \in CollPlans /\ todo = DOMAIN plan

SpecColl == InitColl /\ [][NextDet]_vars

\* C21: the reverse map ManifestInverted returns has one entry per entry of
\* the manifest, also when two names have the same fingerprinted name
\* (ManifestInverted has no error for that case).
ReverseKeepsEveryEntry ==
  inverting = "done" => Cardinality(DOMAIN rev) = Cardinality(DOMAIN fwd)

\* The spellings of one name with no, one and two leading slashes.
SlashVariants == {NameA0, NameA1, NameA2}

\* s begins with exactly one slash.
OneLeadingSlash(s) ==
  /\ Len(s) >= 1 /\ s[1] = "/"
  /\ Len(s) >= 2 => s[2] # "/"

\* C22: Pack stores under the name with exactly one leading slash; after
\* packing spellings that differ only in their leading slashes the manifest
\* has the single key with one slash, and its value is the fingerprint of
\* the content packed last.
SingleSlashKey ==
  /\ \A k \in DOMAIN h \cup DOMAIN files : OneLeadingSlash(k)
  /\ (todo = {} /\ ret[1].op = "manifest" /\ ~ret[1].panic) =>
       /\ \A k \in DOMAIN ret[1].map : OneLeadingSlash(k)
       /\ DOMAIN plan \cap SlashVariants # {} =>
            /\ NameA1 \in DOMAIN ret[1].map
            /\ NameA1 \in DOMAIN lastPacked
            /\ lastPacked[NameA1] \in {plan[v] : v \in DOMAIN plan \cap SlashVariants}
            /\ ret[1].map[NameA1] =
                 SliceTo(md5hex(NameA0), 6) \o <<".">>
                 \o SliceTo(md5hex(lastPacked[NameA1]), 6) \o <<".", "j", "s">>

\* C22 witness: the name was packed without a slash and with two slashes,
\* with different contents, and the manifest has its one key.
TwoSpellingsPacked ==
  /\ todo = {} /\ SlashVariants \cap DOMAIN plan = {NameA0, NameA2}
  /\ plan[NameA0] # plan[NameA2]
  /\ ret[1].op = "manifest" /\ ~ret[1].panic
  /\ DOMAIN ret[1].map = {NameA1}

\* C23: the manifest has a key for every packed entry except the manifest's
\* own file (p.manifest, written at the root of the store), and for nothing
\* else: an entry packed in any other directory is never left out.
ManifestSelfExclusion ==
  (todo = {} /\ ret[1].op = "manifest" /\ ~ret[1].panic) =>
    DOMAIN ret[1].map = DOMAIN lastPacked \ {<<"/">> \o ManifestName}

(***************************************************************************)
(* The image step (script.go, Script.addImages): walk, worker pool, join,  *)
(* packing; run again and again over one cache directory (SpecPool)        *)
(***************************************************************************)

\* imagesDir
ImagesDir == <<"i", "m", "a", "g", "e", "s">>

\* The files of the image directory that imageExtRE accepts, in the lexical
\* order in which filepath.Walk visits them.
ImgA == <<"a", ".", "p", "n", "g">>
ImgB == <<"b", ".", "p", "n", "g">>
ImgM == ManifestName

ImageOrder == <<ImgA, ImgB, ImgM>>

Images == {ImageOrder[i] : i \in 1..Len(ImageOrder)}

\* The external optimizer's output for an input, a stand-in: a tool-made
\* rewriting of the bytes.
Optimize(buf) == <<"o">> \o buf

\* imagesDir + "/" + fn
ImagePackName(fn) == ImagesDir \o <<"/">> \o fn

\* The candidates of the directory in walk order.
Listing(dir) == SelectSeq(ImageOrder, LAMBDA fn : fn \in DOMAIN dir)

\* A rule that would look at the hashes only.
IsChangedHashOnly(cached, hash, outExists) == cached # hash

\* cached == "" || cached != hash || !fileExists(outfile)
IsChanged(cached, hash, outExists) ==
  cached = EmptyStr \/ cached # hash \/ ~outExists

\* A group that would keep the last error handed to it.
GroupErrLast(old, err) == err

\* errgroup: errOnce.Do(func() { g.err = err; ... }) keeps the first error.
GroupErr(old, err) == IF old = NilErr THEN err ELSE old

\* A join whose error would never count as a failure.
JoinFailedNever(err) == FALSE

\* if err := eg.Wait(); err != nil { return err }
JoinFailed(err) == err # NilErr

\* A loop that would start a worker in every slot.
SpawnedAll(n) == Workers

\* for i := 0; i < s.flags.Workers; i++ { eg.Go(...) }: the workers started.
Spawned(n) == 1..n

\* A receive that would leave the item in the channel for the next receiver.
RecvKeep(q) == q

\* fn := <-ch takes the item out of the channel: what is left of it.
Recv(q) == Tail(q)

\* A channel that would not be closed: a receive on it blocks when empty.
RecvZeroNever(q) == FALSE

\* close(ch) before the workers start: a receive on the closed channel
\* returns the zero value "" at once when no item is left.
RecvZero(q) == q = << >>

\* The error of a failed transformation of item fn.
ToolErr(fn) == [kind |-> "tool", item |-> fn]

InitPool ==
  /\ InitPacker /\ InitNoPlan /\ InitNoExec /\ InitNoMore
  /\ flagWorkers \in 1..NWorkers
  /\ exec = << >>
  /\ InitNoFind
  /\ src \in {[fn \in S |-> <<"x">>] : S \in SUBSET Images}
  /\ cmd5 = NoMap /\ cout = NoMap
  /\ runs = 0 /\ spc = "idle" /\ widx = 0
  /\ all = << >> /\ changed = << >> /\ ch = << >>
  /\ wpc = [w \in Workers |-> "exit"]
  /\ witem = [w \in Workers |-> EmptyStr]
  /\ wret = [w \in Workers |-> NoErr]
  /\ ctxDone = FALSE /\ egErr = NilErr /\ stepErr = NoErr /\ packIdx = 0
  /\ firstFailed = EmptyStr
  /\ xformed = << >>

\* What the image step's environment is: the sources and the cache.
envVars == <<src, cmd5, cout>>

\* The step's locals and its group.
localVars == <<widx, all, changed, ch, wpc, witem, wret, ctxDone, egErr, packIdx>>

\* The step returns err: its locals are gone.
StepReturns(err) ==
  /\ stepErr' = err
  /\ spc' = "idle"
  /\ widx' = 0 /\ all' = << >> /\ changed' = << >> /\ ch' = << >>
  /\ wpc' = [w \in Workers |-> "exit"]
  /\ witem' = [w \in Workers |-> EmptyStr]
  /\ wret' = [w \in Workers |-> NoErr]
  /\ ctxDone' = FALSE /\ egErr' = NilErr /\ packIdx' = 0

\* Between runs somebody edits a source image.
EditSource(fn, buf) ==
  /\ spc = "idle" /\ runs < MaxRuns
  /\ fn \in DOMAIN src /\ src[fn] # buf
  /\ src' = [src EXCEPT ![fn] = buf]
  /\ UNCHANGED <<cmd5, cout, runs, spc, stepErr, firstFailed, xformed, localVars>>
  /\ UNCHANGED <<packVars, planVars, execVars, moreVars>>

\* Assetgen recreates dist and a new Packer, and Execute calls the step.
StartRun ==
  /\ spc = "idle" /\ runs < MaxRuns
  /\ runs' = runs + 1
  /\ spc' = "walk"
  /\ stepErr' = NoErr
  /\ firstFailed' = EmptyStr
  /\ xformed' = << >>
  /\ NewPacker
  /\ UNCHANGED <<envVars, localVars, planVars, execVars, moreVars>>

\* The walk's callback for the next candidate: hash the source, read the
\* cached hash, append to all (and to changed), write the new hash.
WalkVisit ==
  /\ spc = "walk" /\ widx < Len(Listing(src))
  /\ LET fn     == Listing(src)[widx + 1]
         hash   == md5hex(src[fn])
         cached == MapGet(cmd5, fn)
     IN  /\ all' = Append(all, fn)
         /\ changed' = IF IsChanged(cached, hash, fn \in DOMAIN cout)
                       THEN Append(changed, fn) ELSE changed
         /\ cmd5' = MapPut(cmd5, fn, hash)
  /\ widx' = widx + 1
  /\ UNCHANGED <<src, cout, runs, spc, ch, wpc, witem, wret, ctxDone, egErr,
                 stepErr, packIdx, firstFailed, xformed>>
  /\ UNCHANGED <<packVars, planVars, execVars, moreVars>>

\* The walk fails (MkdirAll, md5hash, Stat, ReadFile or WriteFile returns an
\* error): the step returns it.
WalkFails ==
  /\ spc = "walk" /\ widx < Len(Listing(src))
  /\ StepReturns(IoErr)
  /\ UNCHANGED <<envVars, runs, firstFailed, xformed>>
  /\ UNCHANGED <<packVars, planVars, execVars, moreVars>>

\* The walk is over: fill and close ch, make the group, start the workers.
StartPool ==
  /\ spc = "walk" /\ widx = Len(Listing(src))
  /\ ch' = changed
  /\ ctxDone' = FALSE /\ egErr' = NilErr
  /\ wpc' = [w \in Workers |-> IF w \in Spawned(flagWorkers) THEN "select" ELSE "exit"]
  /\ spc' = "pool"
  /\ UNCHANGED <<envVars, runs, widx, all, changed, witem, wret, stepErr, packIdx,
                 firstFailed, xformed>>
  /\ UNCHANGED <<packVars, planVars, execVars, moreVars>>

\* select: case fn := <-ch with an item in the channel.  Go's select takes
\* any ready case, so ctxt.Done() being ready too does not disable this one.
ReceiveGuard == TRUE

WorkerReceive(w) ==
  /\ spc = "pool" /\ wpc[w] = "select"
  /\ ch # << >>
  /\ ReceiveGuard
  /\ witem' = [witem EXCEPT ![w] = Head(ch)]
  /\ ch' = Recv(ch)
  /\ xformed' = Append(xformed, Head(ch))
  /\ wpc' = [wpc EXCEPT ![w] = "optimize"]
  /\ UNCHANGED <<envVars, runs, spc, widx, all, changed, wret, ctxDone, egErr,
                 stepErr, packIdx, firstFailed>>
  /\ UNCHANGED <<packVars, planVars, execVars, moreVars>>

\* select: case fn := <-ch on the closed, empty channel: fn == "", return nil.
WorkerDrained(w) ==
  /\ spc = "pool" /\ wpc[w] = "select"
  /\ RecvZero(ch)
  /\ wpc' = [wpc EXCEPT ![w] = "exit"]
  /\ wret' = [wret EXCEPT ![w] = NilErr]
  /\ UNCHANGED <<envVars, runs, spc, widx, all, changed, ch, witem, ctxDone, egErr,
                 stepErr, packIdx, firstFailed, xformed>>
  /\ UNCHANGED <<packVars, planVars, execVars, moreVars>>

\* select: case <-ctxt.Done(): return ctxt.Err(); the group's errOnce sees
\* the returned error.
WorkerCancelled(w) ==
  /\ spc = "pool" /\ wpc[w] = "select"
  /\ ctxDone
  /\ wpc' = [wpc EXCEPT ![w] = "exit"]
  /\ wret' = [wret EXCEPT ![w] = Canceled]
  /\ egErr' = GroupErr(egErr, Canceled)
  /\ UNCHANGED <<envVars, runs, spc, widx, all, changed, ch, witem, ctxDone,
                 stepErr, packIdx, firstFailed, xformed>>
  /\ UNCHANGED <<packVars, planVars, execVars, moreVars>>

\* optimizeImage returns nil: the optimized file is in the cache; loop.
WorkerOptimized(w) ==
  /\ spc = "pool" /\ wpc[w] = "optimize"
  /\ cout' = MapPut(cout, witem[w], Optimize(src[witem[w]]))
  /\ wpc' = [wpc EXCEPT ![w] = "select"]
  /\ witem' = [witem EXCEPT ![w] = EmptyStr]
  /\ UNCHANGED <<src, cmd5, runs, spc, widx, all, changed, ch, wret, ctxDone,
                 egErr, stepErr, packIdx, firstFailed, xformed>>
  /\ UNCHANGED <<packVars, planVars, execVars, moreVars>>

\* optimizeImage returns an error: return err; the group records the first
\* error and cancels ctxt.  (The return and the group's errOnce are steps
\* of one goroutine with nothing shared in between.)
WorkerFails(w) ==
  /\ spc = "pool" /\ wpc[w] = "optimize"
  /\ wpc' = [wpc EXCEPT ![w] = "exit"]
  /\ wret' = [wret EXCEPT ![w] = ToolErr(witem[w])]
  /\ egErr' = GroupErr(egErr, ToolErr(witem[w]))
  /\ ctxDone' = TRUE
  /\ witem' = [witem EXCEPT ![w] = EmptyStr]
  /\ firstFailed' = IF firstFailed = EmptyStr THEN witem[w] ELSE firstFailed
  /\ UNCHANGED <<envVars, runs, spc, widx, all, changed, ch, stepErr, packIdx,
                 xformed>>
  /\ UNCHANGED <<packVars, planVars, execVars, moreVars>>

\* eg.Wait() returns an error once every worker has returned: return err.
JoinErr ==
  /\ spc = "pool" /\ \A w \in Workers : wpc[w] = "exit"
  /\ JoinFailed(egErr)
  /\ StepReturns(egErr)
  /\ UNCHANGED <<envVars, runs, firstFailed, xformed>>
  /\ UNCHANGED <<packVars, planVars, execVars, moreVars>>

\* eg.Wait() returns nil once every worker has returned: go on to pack.
JoinOk ==
  /\ spc = "pool" /\ \A w \in Workers : wpc[w] = "exit"
  /\ ~JoinFailed(egErr)
  /\ spc' = "pack" /\ packIdx' = 0
  /\ UNCHANGED <<envVars, runs, widx, all, changed, ch, wpc, witem, wret,
                 ctxDone, egErr, stepErr, firstFailed, xformed>>
  /\ UNCHANGED <<packVars, planVars, execVars, moreVars>>

\* The packing loop may go on: no PackFile has returned an error.
PackLoopOk == packIdx = 0 \/ ret[1] = [op |-> "pack", err |-> FALSE]

\* dist.PackFile(imagesDir+"/"+fn, cache file): the cache file is opened
\* (every candidate has one once the pool has returned nil) and handed to
\* Pack.
PackFileCall ==
  /\ spc = "pack" /\ ppc[1] = "idle" /\ PackLoopOk
  /\ packIdx < Len(all)
  /\ all[packIdx + 1] \in DOMAIN cout
  /\ PackLock(1, ImagePackName(all[packIdx + 1]), cout[all[packIdx + 1]])
  /\ packIdx' = packIdx + 1
  /\ UNCHANGED <<envVars, runs, spc, widx, all, changed, ch, wpc, witem,
                 wret, ctxDone, egErr, stepErr, firstFailed, xformed>>
  /\ UNCHANGED <<planVars, execVars, moreVars>>

\* PackFile returned an error: return err.
PackLoopErr ==
  /\ spc = "pack" /\ ppc[1] = "idle" /\ ~PackLoopOk
  /\ StepReturns(IoErr)
  /\ UNCHANGED <<envVars, runs, firstFailed, xformed>>
  /\ UNCHANGED <<packVars, planVars, execVars, moreVars>>

\* The packing loop is over: return nil.
StepReturnsNil ==
  /\ spc = "pack" /\ ppc[1] = "idle" /\ PackLoopOk
  /\ packIdx = Len(all)
  /\ StepReturns(NilErr)
  /\ UNCHANGED <<envVars, runs, firstFailed, xformed>>
  /\ UNCHANGED <<packVars, planVars, execVars, moreVars>>

\* After the step has returned, the asset callback calls Manifest (once).
AfterStepManifest ==
  /\ spc = "idle" /\ stepErr # NoErr
  /\ ret[1].op # "manifest"
  /\ ManifestRLock(1)
  /\ UNCHANGED notPacker

NextPool ==
  \/ \E fn \in Images, buf \in Contents : EditSource(fn, buf)
  \/ StartRun
  \/ WalkVisit
  \/ WalkFails
  \/ StartPool
  \/ \E w \in Workers : WorkerReceive(w)
  \/ \E w \in Workers : WorkerDrained(w)
  \/ \E w \in Workers : WorkerCancelled(w)
  \/ \E w \in Workers : WorkerOptimized(w)
  \/ \E w \in Workers : WorkerFails(w)
  \/ JoinErr
  \/ JoinOk
  \/ PackFileCall
  \/ PackStoreRefused(1) /\ UNCHANGED notPacker
  \/ \E part \in StrictPrefixes(pbuf[1]) : PackWriteFails(1, part) /\ UNCHANGED notPacker
  \/ PackWritten(1) /\ UNCHANGED notPacker
  \/ PackHash(1) /\ UNCHANGED notPacker
  \/ PackLoopErr
  \/ StepReturnsNil
  \/ AfterStepManifest
  \/ \E n \in DOMAIN files : ManifestSkip(1, n) /\ UNCHANGED notPacker
  \/ \E n \in DOMAIN files : ManifestVisit(1, n) /\ UNCHANGED notPacker
  \/ \E n \in DOMAIN files : ManifestPanic(1, n) /\ UNCHANGED notPacker
  \/ ManifestReturn(1) /\ UNCHANGED notPacker

SpecPool == InitPool /\ [][NextPool]_vars

\* One worker goroutine's steps: its select, and the return of the
\* transformation it is waiting for.
WorkerStep(w) ==
  \/ WorkerReceive(w)
  \/ WorkerDrained(w)
  \/ WorkerCancelled(w)
  \/ WorkerOptimized(w)
  \/ WorkerFails(w)

\* The goroutine of the step inside eg.Wait().
JoinStep == JoinErr \/ JoinOk

\* The scheduler runs every runnable goroutine, and every transformation
\* call returns.
SpecPoolFair ==
  /\ SpecPool
  /\ \A w \in Workers : WF_vars(WorkerStep(w))
  /\ WF_vars(JoinStep)

\* The image step over a cache directory that an earlier run, which
\* returned nil, has left: every candidate has its .md5 file and its
\* optimized output (SpecCache).
InitCache ==
  /\ InitPacker /\ InitNoPlan /\ InitNoExec /\ InitNoMore
  /\ flagWorkers = NWorkers
  /\ exec = << >>
  /\ InitNoFind
  /\ src \in {[fn \in S |-> <<"x">>] : S \in SUBSET Images}
  /\ cmd5 = [fn \in DOMAIN src |-> md5hex(src[fn])]
  /\ cout = [fn \in DOMAIN src |-> Optimize(src[fn])]
  /\ runs = 0 /\ spc = "idle" /\ widx = 0
  /\ all = << >> /\ changed = << >> /\ ch = << >>
  /\ wpc = [w \in Workers |-> "exit"]
  /\ witem = [w \in Workers |-> EmptyStr]
  /\ wret = [w \in Workers |-> NoErr]
  /\ ctxDone = FALSE /\ egErr = NilErr /\ stepErr = NoErr /\ packIdx = 0
  /\ firstFailed = EmptyStr
  /\ xformed = << >>

SpecCache == InitCache /\ [][NextPool]_vars

\* ---- Properties of the image step (SpecPool) ----

\* C1: once a transformation has failed and the shared context is cancelled,
\* no worker begins transforming another queued item: a worker that is
\* transforming after a step taken under cancellation was already
\* transforming before it.
NoItemBeginsAfterCancel ==
  [][(spc = "pool" /\ ctxDone) =>
       \A w \in Workers : wpc'[w] = "optimize" => wpc[w] = "optimize"]_vars

\* C2: the error the pool's join returns is the error of the first worker
\* whose transformation failed, one error; neither the group's error nor the
\* error the step returns is ever context.Canceled.
JoinReturnsFirstFailure ==
  /\ egErr # Canceled /\ stepErr # Canceled
  /\ (spc = "pool" /\ firstFailed = EmptyStr) => egErr = NilErr
  /\ (spc = "pool" /\ firstFailed # EmptyStr) => egErr = ToolErr(firstFailed)
  /\ (spc = "idle" /\ firstFailed # EmptyStr) => stepErr = ToolErr(firstFailed)

\* Every worker has returned, one with a failed transformation and another
\* with the cancellation error it observed; the join is about to return.
CancelObservedAtJoin ==
  /\ spc = "pool" /\ \A w \in Workers : wpc[w] = "exit"
  /\ \E w \in Workers : wret[w] = Canceled
  /\ \E w \in Workers : wret[w] = ToolErr(firstFailed)

\* The candidates of the walk are all in the store under images/<name>.
CandidatesPacked ==
  \A fn \in DOMAIN src : <<"/">> \o ImagePackName(fn) \in DOMAIN files

\* The image step has returned nil and a following Manifest has returned.
ManifestFollowsStep ==
  /\ spc = "idle" /\ stepErr = NilErr
  /\ ret[1].op = "manifest" /\ ~ret[1].panic /\ ~ret[1].err

\* C3: when the image step returns nil, every candidate of the walk, queued
\* as changed or skipped as unchanged, has an entry under images/<name>, and
\* each such entry is a key of the map a following Manifest returns.
PoolCompleteness ==
  /\ (spc = "idle" /\ stepErr = NilErr) => CandidatesPacked
  /\ ManifestFollowsStep =>
       \A fn \in DOMAIN src : <<"/">> \o ImagePackName(fn) \in DOMAIN ret[1].map

\* C25: once the transformation of an item has failed, the step makes no
\* Pack call, the Packer's store and hash table stay as they were when the
\* step started (empty), and the step returns an error.
ToolFailureAborts ==
  firstFailed # EmptyStr =>
    /\ files = NoMap /\ h = NoMap
    /\ spc # "pack" /\ \A p \in Procs : ppc[p] \notin {"pack_store", "pack_hash"}
    /\ spc = "idle" => stepErr \notin {NilErr, NoErr}

\* C25 witness: one item was transformed, another one failed, and the step
\* has returned that failure.
ToolFailureReturned ==
  /\ spc = "idle" /\ firstFailed # EmptyStr
  /\ stepErr = ToolErr(firstFailed)
  /\ \E fn \in DOMAIN cout : fn # firstFailed

\* C31: once the workers are started the pool's join returns, whatever the
\* number of changed items; with no changed item no transformation runs and
\* the join returns nil; a worker that finds the closed queue drained, or
\* observes the cancellation, has exited after its step.
PoolTerminates ==
  /\ (spc = "pool") ~> (spc # "pool")
  /\ [][(spc = "pool" /\ changed = << >>) => (egErr = NilErr /\ cout' = cout)]_vars
  /\ [][\A w \in Workers :
          (spc = "pool" /\ wpc[w] = "select" /\ wpc'[w] # "select" /\ wpc'[w] # "optimize")
            => wpc'[w] = "exit"]_vars

\* C31 witness: the join has returned nil to a step with candidates, none
\* of them changed, and more workers than items.
JoinedWithNothingChanged ==
  /\ spc = "pack" /\ changed = << >> /\ all # << >>
  /\ flagWorkers = NWorkers /\ packIdx = 0

\* The elements of a sequence are pairwise different.
NoDup(q) == \A i, j \in 1..Len(q) : q[i] = q[j] => i = j

\* C32: within one run no item is handed to the transformation twice and no
\* two workers hold the same item; when the join has returned nil the items
\* transformed are the changed items, each once; while any worker has not
\* exited the step has made no Pack call.
EachItemOnce ==
  /\ NoDup(xformed)
  /\ \A v, w \in Workers :
       (v # w /\ wpc[v] = "optimize" /\ wpc[w] = "optimize") => witem[v] # witem[w]
  /\ spc = "pack" =>
       /\ Len(xformed) = Len(changed)
       /\ {xformed[i] : i \in 1..Len(xformed)} = {changed[i] : i \in 1..Len(changed)}
  /\ (\E w \in Workers : wpc[w] # "exit") =>
       (files = NoMap /\ h = NoMap /\ \A p \in Procs : ppc[p] = "idle")

\* C32 witness: the join has returned nil after two workers shared three
\* changed items, and the step is inside its first Pack call.
SharedItemsThenPack ==
  /\ spc = "pack" /\ Len(changed) = 3 /\ Len(xformed) = 3
  /\ flagWorkers = 2
  /\ ppc[1] = "pack_store"

\* C33: whenever the step packs a candidate that its walk skipped as
\* unchanged, the cached output it packs is the transformation of the
\* candidate's current source content.
SkippedOutputIsCurrent ==
  [][(spc = "pack" /\ packIdx' = packIdx + 1) =>
       LET fn == all[packIdx + 1]
       IN  (\A i \in 1..Len(changed) : changed[i] # fn) =>
             pbuf'[1] = Optimize(src[fn])]_vars

\* The worker routines the step has started.
WorkersStarted == {w \in Workers : wpc[w] # "exit" \/ wret[w] # NoErr}

\* The transformations in flight.
InFlight == {w \in Workers : wpc[w] = "optimize"}

\* C27: the step starts exactly Flags.Workers worker routines and at most
\* that many transformations are in flight, whatever the number of changed
\* items.
BoundedConcurrency ==
  spc = "pool" =>
    /\ Cardinality(WorkersStarted) = flagWorkers
    /\ Cardinality(InFlight) <= flagWorkers

\* C27 witness: more changed items than workers, every worker transforming
\* and items still queued.
AllWorkersBusy ==
  /\ spc = "pool" /\ Len(changed) > flagWorkers
  /\ Cardinality(InFlight) = flagWorkers
  /\ ch # << >>

\* C28: the walk lists every candidate for packing, and queues it for
\* re-processing exactly when it has no cached hash, or the cached hash
\* differs from the hash of its source, or its cached output is missing.
IncrementalRule ==
  [][(spc = "walk" /\ widx' = widx + 1) =>
       LET fn == Listing(src)[widx + 1]
           queue == \/ fn \notin DOMAIN cmd5
                    \/ cmd5[fn] = EmptyStr
                    \/ cmd5[fn] # md5hex(src[fn])
                    \/ fn \notin DOMAIN cout
       IN  /\ all' = Append(all, fn)
           /\ changed' = IF queue THEN Append(changed, fn) ELSE changed]_vars

\* C28 witness: the walk has skipped an unchanged candidate, which is listed
\* all the same, and comes to one whose hash is cached and unchanged but
\* whose output is missing.
SkippedThenOutputMissing ==
  /\ spc = "walk" /\ widx >= 1 /\ widx < Len(Listing(src))
  /\ all # << >> /\ changed = << >>
  /\ LET fn == Listing(src)[widx + 1]
     IN  /\ MapGet(cmd5, fn) = md5hex(src[fn])
         /\ fn \notin DOMAIN cout

(***************************************************************************)
(* Assetgen and Script.Execute: the registered steps, then the             *)
(* finalisation                                                            *)
(***************************************************************************)

\* The error step i returns when it fails.
StepErr(i) == [kind |-> "step", step |-> i]

\* An Execute that would go on whatever a step returns.
StepAbortsNever(err) == FALSE

\* Execute: if err := f(dist); err != nil { return err }
StepAborts(err) == err # NilErr

\* An Assetgen that would go on whatever Execute returns.
ExecuteSucceededAlways(err) == TRUE

\* Assetgen: if err := s.Execute(dist); err != nil { return ... }
ExecuteSucceeded(err) == err = NilErr

\* Assetgen has made dist and is about to call s.Execute(dist).
InitExec ==
  /\ InitPacker /\ InitNoPlan /\ InitNoPool /\ InitNoMore
  /\ flagWorkers = NWorkers
  /\ exec = << >>
  /\ InitNoFind
  /\ epc = "loop" /\ ei = 0 /\ started = << >>
  /\ sret = [i \in Steps |-> NoErr]
  /\ lastErr = NoErr /\ exret = NoErr
  /\ finalView = {} /\ packedBy = {}

notExec == <<planVars, poolVars, moreVars>>

\* Execute: the loop takes the next f of s.exec and calls f(dist).
ExecuteCallsStep ==
  /\ epc = "loop" /\ ei < NSteps
  /\ epc' = "step"
  /\ started' = Append(started, ei + 1)
  /\ UNCHANGED <<ei, sret, lastErr, exret, finalView, packedBy>>
  /\ UNCHANGED <<packVars, notExec>>

\* The running step packs an entry: dist.Pack(name, r).
StepPacks(name, buf) ==
  /\ epc = "step" /\ calls < MaxCalls
  /\ PackLock(1, name, buf)
  /\ UNCHANGED <<execVars, notExec>>

\* The step's Pack has stored the bytes and records the hash.
StepPackHash ==
  /\ epc = "step"
  /\ PackHash(1)
  /\ packedBy' = packedBy \cup {StorePath(pname[1])}
  /\ UNCHANGED <<epc, ei, started, sret, lastErr, exret, finalView>>
  /\ UNCHANGED notExec

\* The running step returns nil or its error: err = f(dist).
StepReturn(err) ==
  /\ epc = "step" /\ ppc[1] = "idle"
  /\ sret' = [sret EXCEPT ![ei + 1] = err]
  /\ lastErr' = err
  /\ epc' = "check"
  /\ UNCHANGED <<ei, started, exret, finalView, packedBy>>
  /\ UNCHANGED <<packVars, notExec>>

\* Execute: err != nil: return err.
ExecuteReturnsErr ==
  /\ epc = "check" /\ StepAborts(lastErr)
  /\ exret' = lastErr
  /\ lastErr' = NoErr
  /\ epc' = "returned"
  /\ UNCHANGED <<ei, started, sret, finalView, packedBy>>
  /\ UNCHANGED <<packVars, notExec>>

\* Execute: err == nil: on to the next f.
ExecuteContinues ==
  /\ epc = "check" /\ ~StepAborts(lastErr)
  /\ ei' = ei + 1
  /\ lastErr' = NoErr
  /\ epc' = "loop"
  /\ UNCHANGED <<started, sret, exret, finalView, packedBy>>
  /\ UNCHANGED <<packVars, notExec>>

\* Execute: the loop is over: return nil.
ExecuteReturnsNil ==
  /\ epc = "loop" /\ ei = NSteps
  /\ exret' = NilErr
  /\ epc' = "returned"
  /\ UNCHANGED <<ei, started, sret, lastErr, finalView, packedBy>>
  /\ UNCHANGED <<packVars, notExec>>

\* Assetgen: Execute returned an error: return "could not run script".
AssetgenFails ==
  /\ epc = "returned" /\ ~ExecuteSucceeded(exret)
  /\ epc' = "failed"
  /\ UNCHANGED <<ei, started, sret, lastErr, exret, finalView, packedBy>>
  /\ UNCHANGED <<packVars, notExec>>

\* Assetgen: Execute returned nil: writeAssetsGo(flags, dist) reads what
\* dist holds.
WriteAssets ==
  /\ epc = "returned" /\ ExecuteSucceeded(exret)
  /\ CanRLock
  /\ finalView' = DOMAIN files
  /\ epc' = "done"
  /\ UNCHANGED <<ei, started, sret, lastErr, exret, packedBy>>
  /\ UNCHANGED <<packVars, notExec>>

NextExec ==
  \/ ExecuteCallsStep
  \/ \E name \in RawNames, buf \in Contents : StepPacks(name, buf)
  \/ epc = "step" /\ PackStoreRefused(1) /\ UNCHANGED notPacker
  \/ \E part \in StrictPrefixes(pbuf[1]) :
        epc = "step" /\ PackWriteFails(1, part) /\ UNCHANGED notPacker
  \/ epc = "step" /\ PackWritten(1) /\ UNCHANGED notPacker
  \/ StepPackHash
  \/ StepReturn(NilErr)
  \/ StepReturn(StepErr(ei + 1))
  \/ ExecuteReturnsErr
  \/ ExecuteContinues
  \/ ExecuteReturnsNil
  \/ AssetgenFails
  \/ WriteAssets

SpecExec == InitExec /\ [][NextExec]_vars

\* ---- Properties of Assetgen and Execute (SpecExec) ----

\* C9: Execute runs the registered steps one at a time in registration
\* order; a step starts only after the step before it has returned nil; when
\* a step returns an error no later step is started and Execute returns
\* that error.
StepOrderAndAbort ==
  /\ started = [i \in 1..Len(started) |-> i]
  /\ \A i \in 1..Len(started) : \A j \in 1..(i - 1) : sret[j] = NilErr
  /\ \A i \in Steps : sret[i] # NoErr => i \in 1..Len(started)
  /\ \A i \in Steps :
       sret[i] = StepErr(i) =>
         /\ Len(started) = i
         /\ epc \in {"check", "returned", "failed"}
         /\ epc # "check" => exret = StepErr(i)

\* A step failed after an earlier one had returned nil, and Execute has
\* returned to Assetgen.
LaterStepFailed ==
  /\ epc = "failed"
  /\ \E i \in Steps : i > 1 /\ sret[i] = StepErr(i) /\ exret = StepErr(i)

JNull == [t |-> "null"]

JStr(x) == [t |-> "str", s |-> x]

JNum(x) == [t |-> "num", n |-> x]

JList(sq) == [t |-> "list", items |-> sq]

JObj(f) == [t |-> "obj", members |-> f]

\* A received line: the text of a JSON value, or text that is not JSON.
JsonLine(val) == [json |-> TRUE, val |-> val]

LGarbage == [json |-> FALSE]

\* The argument list of the call requests.
CallArgs == <<JStr("x"), JNum("7")>>

LList == JsonLine(JObj([type |-> JStr("list-functions")]))

LCallF ==
  JsonLine(JObj([type |-> JStr("call"),
                 params |-> JObj([name |-> JStr("f"), args |-> JList(CallArgs)])]))

LCallNoParams == JsonLine(JObj([type |-> JStr("call")]))

LCallNameNum ==
  JsonLine(JObj([type |-> JStr("call"),
                 params |-> JObj([name |-> JNum("7"), args |-> JList(CallArgs)])]))

LCallNoArgs ==
  JsonLine(JObj([type |-> JStr("call"), params |-> JObj([name |-> JStr("f")])]))

LCallArgsStr ==
  JsonLine(JObj([type |-> JStr("call"),
                 params |-> JObj([name |-> JStr("f"), args |-> JStr("x")])]))

LUnknown == JsonLine(JObj([type |-> JStr("ping")]))

LNull == JsonLine(JNull)

LTypeNum == JsonLine(JObj([type |-> JNum("7")]))

LParamsStr == JsonLine(JObj([type |-> JStr("call"), params |-> JStr("x")]))

\* The lines a client may send first.
ReqLines ==
  {LList, LCallF, LCallNoParams, LCallNameNum, LCallNoArgs, LCallArgsStr,
   LUnknown, LNull, LTypeNum, LParamsStr, LGarbage}

\* The lines one client sends on its connection.
MaxLines == 2

\* The callback maps a server may be made with.
Registries == {{}, {"f", "g"}}

\* A member of a JSON object, JNull when it is absent.
Member(obj, k) == IF k \in DOMAIN obj.members THEN obj.members[k] ELSE JNull

\* json.NewDecoder(...).Decode(&v) into IpcMsg{Type string; Params map}:
\* text that is not JSON is a syntax error; null leaves v as it is; a value
\* that is not an object, a type that is not a string and params that are
\* not an object are type errors; null members leave the field as it is.
Decode(line) ==
  IF ~line.json THEN [err |-> TRUE]
  ELSE IF line.val = JNull THEN [err |-> FALSE, Type |-> "", Params |-> JNull]
  ELSE IF line.val.t # "obj" THEN [err |-> TRUE]
  ELSE LET ty == Member(line.val, "type")
           pa == Member(line.val, "params")
       IN  IF ty.t \notin {"str", "null"} \/ pa.t \notin {"obj", "null"}
           THEN [err |-> TRUE]
           ELSE [err |-> FALSE,
                 Type |-> IF ty.t = "str" THEN ty.s ELSE "",
                 Params |-> pa]

\* v.Params[k] of a map that may be nil.
Param(v, k) == IF v.Params.t = "obj" THEN Member(v.Params, k) ELSE JNull

\* What a callback returns for its arguments when it succeeds.
CbValue(name, args) == [t |-> "ret", of |-> name, args |-> args]

\* The map's lookup s.m[name].
RegisteredAny(name, reg) == TRUE

Registered(name, reg) == name \in reg

\* doCall: the checks in the order of the code, then f(args...).  ok is
\* whether the callback succeeds.
doCall(v, reg, ok) ==
  IF Param(v, "name").t # "str"
  THEN [err |-> "missing name in call", inv |-> << >>]
  ELSE IF Param(v, "args").t # "list"
  THEN [err |-> "missing args in call", inv |-> << >>]
  ELSE IF ~Registered(Param(v, "name").s, reg)
  THEN [err |-> "invalid func name", inv |-> << >>]
  ELSE LET nm == Param(v, "name").s
           ar == Param(v, "args").items
       IN  [err |-> IF ok THEN "" ELSE "callback failed",
            res |-> CbValue(nm, ar),
            inv |-> <<[name |-> nm, args |-> ar]>>]

\* ret["error"] = err.Error() or ret["result"] = res
CallResponseBoth(r) == [error |-> JStr(r.err), result |-> JNull]

CallResponse(r) ==
  IF r.err # "" THEN [error |-> JStr(r.err)] ELSE [result |-> r.res]

\* json's encoding of funcs: a nil slice (nothing was appended) is null.
EncodeFuncs(sq) == IF sq = << >> THEN JNull ELSE JList([i \in DOMAIN sq |-> JStr(sq[i])])

\* go s.handle(ctxt, conn): the accept loop does not wait for handlers.
LoopWaitsForHandlers(hp) == \A c \in Conns : hp[c] \in {"none", "done"}

LoopFree(hp) == TRUE

\* Run has returned nil: the listener listens, the watcher and the loop run.
InitIpc ==
  /\ InitPacker /\ InitNoPlan /\ InitNoPool /\ InitNoExec
  /\ InitNoGen /\ InitNoAsset /\ InitNoInv
  /\ flagWorkers = NWorkers
  /\ exec = << >>
  /\ InitNoFind
  /\ registry \in Registries
  /\ srvCtx = FALSE /\ lpc = "select" /\ lclosed = FALSE /\ sigpc = "wait"
  /\ cst = [c \in Conns |-> "none"]
  /\ hpc = [c \in Conns |-> "none"]
  /\ lines = [c \in Conns |-> << >>]
  /\ nsent = [c \in Conns |-> 0]
  /\ req = [c \in Conns |-> << >>]
  /\ resp = [c \in Conns |-> << >>]
  /\ invoked = [c \in Conns |-> << >>]
  /\ accepted = << >>
  /\ cclosed = {}

notIpc == <<packVars, planVars, poolVars, execVars, genVars, assetVars, invVars, flagWorkers, exec, findVars>>

\* A client connects: into the listener's backlog, or refused once the
\* listener is closed.
ClientConnect(c) ==
  /\ cst[c] = "none"
  /\ cst' = [cst EXCEPT ![c] = IF lclosed THEN "refused" ELSE "pending"]
  /\ UNCHANGED <<registry, cclosed, srvCtx, lpc, lclosed, sigpc, hpc, lines, nsent, req,
                 resp, invoked, accepted>>
  /\ UNCHANGED notIpc

\* A client writes a line: any request first, list-functions after it.
ClientSend(c, l) ==
  /\ cst[c] \in {"pending", "open"} /\ c \notin cclosed
  /\ nsent[c] < MaxLines
  /\ nsent[c] > 0 => l = LList
  /\ lines' = [lines EXCEPT ![c] = Append(@, l)]
  /\ nsent' = [nsent EXCEPT ![c] = @ + 1]
  /\ UNCHANGED <<registry, cclosed, srvCtx, lpc, lclosed, sigpc, cst, hpc, req, resp,
                 invoked, accepted>>
  /\ UNCHANGED notIpc

\* The build driver cancels the context it gave to Run.
DriverCancel ==
  /\ ~srvCtx
  /\ srvCtx' = TRUE
  /\ UNCHANGED <<registry, cclosed, lpc, lclosed, sigpc, cst, hpc, lines, nsent, req,
                 resp, invoked, accepted>>
  /\ UNCHANGED notIpc

\* The watcher receives SIGINT or SIGTERM: log, deferred cancel().
SignalCaught ==
  /\ sigpc = "wait"
  /\ sigpc' = "done"
  /\ srvCtx' = TRUE
  /\ UNCHANGED <<registry, cclosed, lpc, lclosed, cst, hpc, lines, nsent, req, resp,
                 invoked, accepted>>
  /\ UNCHANGED notIpc

\* The loop returns: deferred l.Close(); the backlog is dropped.
LoopExits ==
  /\ lpc' = "exited"
  /\ lclosed' = TRUE
  /\ cst' = [c \in Conns |-> IF cst[c] = "pending" THEN "reset" ELSE cst[c]]
  /\ UNCHANGED <<registry, cclosed, srvCtx, sigpc, hpc, lines, nsent, req, resp, invoked,
                 accepted>>
  /\ UNCHANGED notIpc

\* Accept loop, select: case <-ctxt.Done(): return.
LoopDone == lpc = "select" /\ LoopFree(hpc) /\ srvCtx /\ LoopExits

\* Accept loop, select: default (ctxt is not done): call l.Accept().
LoopDefault ==
  /\ lpc = "select" /\ LoopFree(hpc) /\ ~srvCtx
  /\ lpc' = "accept"
  /\ UNCHANGED <<registry, cclosed, srvCtx, lclosed, sigpc, cst, hpc, lines, nsent, req,
                 resp, invoked, accepted>>
  /\ UNCHANGED notIpc

\* l.Accept() returns a connection of the backlog: go s.handle(ctxt, conn).
LoopAccept(c) ==
  /\ lpc = "accept" /\ cst[c] = "pending"
  /\ cst' = [cst EXCEPT ![c] = "open"]
  /\ hpc' = [hpc EXCEPT ![c] = "select"]
  /\ accepted' = Append(accepted, c)
  /\ lpc' = "select"
  /\ UNCHANGED <<registry, cclosed, srvCtx, lclosed, sigpc, lines, nsent, req, resp, invoked>>
  /\ UNCHANGED notIpc

\* l.Accept() returns an error: log, return.
LoopAcceptFails == lpc = "accept" /\ LoopExits

\* handle, select: case <-ctxt.Done(): return ctxt.Err(); deferred Close.
HandleDone(c) ==
  /\ hpc[c] \in {"select", "select_eof"} /\ srvCtx
  /\ hpc' = [hpc EXCEPT ![c] = "done"]
  /\ cst' = [cst EXCEPT ![c] = "closed"]
  /\ UNCHANGED <<registry, cclosed, srvCtx, lpc, lclosed, sigpc, lines, nsent, req, resp,
                 invoked, accepted>>
  /\ UNCHANGED notIpc

\* handle, select: default: sn.Scan() waits for a line.
HandleDefault(c) ==
  /\ hpc[c] \in {"select", "select_eof"} /\ ~srvCtx
  /\ hpc' = [hpc EXCEPT ![c] = IF @ = "select" THEN "scan" ELSE "scan_eof"]
  /\ UNCHANGED <<registry, cclosed, srvCtx, lpc, lclosed, sigpc, cst, lines, nsent, req,
                 resp, invoked, accepted>>
  /\ UNCHANGED notIpc

\* handle: sn.Scan() has a line: decode it; on an error log and return; else
\* build ret by the request's type and return the Encode of it; deferred
\* Close.  order is the order of the range over s.m, ok whether a called
\* callback succeeds.
HandleRequest(c, order, ok) ==
  /\ hpc[c] = "scan" /\ lines[c] # << >>
  /\ LET l == Head(lines[c])
         v == Decode(l)
         r == doCall(v, registry, ok)
     IN  /\ req' = [req EXCEPT ![c] = <<l>>]
         /\ resp' = [resp EXCEPT ![c] =
               IF v.err THEN << >>
               ELSE IF v.Type = "list-functions" THEN <<[result |-> EncodeFuncs(order)]>>
               ELSE IF v.Type = "call" THEN <<CallResponse(r)>>
               ELSE <<[error |-> JStr("unknown request type")]>>]
         /\ invoked' = [invoked EXCEPT ![c] =
               IF ~v.err /\ v.Type = "call" THEN r.inv ELSE << >>]
  /\ lines' = [lines EXCEPT ![c] = Tail(@)]
  /\ hpc' = [hpc EXCEPT ![c] = "done"]
  /\ cst' = [cst EXCEPT ![c] = "closed"]
  /\ UNCHANGED <<registry, cclosed, srvCtx, lpc, lclosed, sigpc, nsent, accepted>>
  /\ UNCHANGED notIpc

\* The client closes its end of the connection: what it has sent stays
\* readable, then the server's reads find the end of the input.
ClientClose(c) ==
  /\ cst[c] \in {"pending", "open"} /\ c \notin cclosed
  /\ cclosed' = cclosed \cup {c}
  /\ UNCHANGED <<registry, srvCtx, lpc, lclosed, sigpc, cst, hpc, lines, nsent,
                 req, resp, invoked, accepted>>
  /\ UNCHANGED notIpc

\* handle: sn.Scan() returns false at the end of the input (the scanner
\* keeps io.EOF and answers false at once from then on): the inner for is
\* left, sn.Err() is nil, and the outer for goes round to its select.  The
\* positions "select_eof" and "scan_eof" are those of a handler whose
\* scanner has found the end of the input.
HandleEof(c) ==
  /\ \/ hpc[c] = "scan" /\ lines[c] = << >> /\ c \in cclosed
     \/ hpc[c] = "scan_eof"
  /\ hpc' = [hpc EXCEPT ![c] = "select_eof"]
  /\ UNCHANGED <<registry, cclosed, srvCtx, lpc, lclosed, sigpc, cst, lines, nsent,
                 req, resp, invoked, accepted>>
  /\ UNCHANGED notIpc

ServerStep ==
  \/ LoopDone
  \/ LoopDefault
  \/ \E c \in Conns : LoopAccept(c)
  \/ \E c \in Conns : HandleDone(c)
  \/ \E c \in Conns : HandleDefault(c)
  \/ \E c \in Conns, order \in Orders(registry), ok \in BOOLEAN :
        HandleRequest(c, order, ok)

NextIpc ==
  \/ \E c \in Conns : ClientConnect(c)
  \/ \E c \in Conns, l \in ReqLines : ClientSend(c, l)
  \/ DriverCancel
  \/ SignalCaught
  \/ LoopAcceptFails
  \/ ServerStep

SpecIpc == InitIpc /\ [][NextIpc]_vars

\* The scheduler runs every goroutine of the server that can take a step;
\* nothing makes a client connect, a signal arrive or Accept fail.
SpecIpcFair == SpecIpc /\ WF_vars(ServerStep)

\* The lines the clients of SpecConn send first: a request, and text that
\* does not decode.
ConnLines == {LList, LGarbage}

\* The server next to clients that may close their end at any time
\* (SpecConn).
InitConn ==
  /\ InitPacker /\ InitNoPlan /\ InitNoPool /\ InitNoExec
  /\ InitNoGen /\ InitNoAsset /\ InitNoInv
  /\ flagWorkers = NWorkers
  /\ exec = << >>
  /\ InitNoFind
  /\ registry = {"f", "g"}
  /\ srvCtx = FALSE /\ lpc = "select" /\ lclosed = FALSE /\ sigpc = "wait"
  /\ cst = [c \in Conns |-> "none"]
  /\ hpc = [c \in Conns |-> "none"]
  /\ lines = [c \in Conns |-> << >>]
  /\ nsent = [c \in Conns |-> 0]
  /\ req = [c \in Conns |-> << >>]
  /\ resp = [c \in Conns |-> << >>]
  /\ invoked = [c \in Conns |-> << >>]
  /\ accepted = << >>
  /\ cclosed = {}

\* The steps of the server's goroutines, the handlers' end of input
\* included.
ConnServerStep ==
  \/ ServerStep
  \/ \E c \in Conns : HandleEof(c)

NextConn ==
  \/ \E c \in Conns : ClientConnect(c)
  \/ \E c \in Conns, l \in ConnLines : ClientSend(c, l)
  \/ \E c \in Conns : ClientClose(c)
  \/ DriverCancel
  \/ SignalCaught
  \/ LoopAcceptFails
  \/ ConnServerStep

SpecConn == InitConn /\ [][NextConn]_vars

\* The scheduler runs every goroutine of the server that can take a step.
SpecConnFair == SpecConn /\ WF_vars(ConnServerStep)

\* ---- Properties of the callback server (SpecIpc, SpecIpcFair) ----

\* A line is a request object: a JSON object whose type is a string and
\* whose params, when present, are an object.
WellFormed(l) ==
  /\ l.json /\ l.val.t = "obj"
  /\ Member(l.val, "type").t = "str"
  /\ Member(l.val, "params").t \in {"obj", "null"}

\* The type a request object names.
ReqTypeOf(l) == Member(l.val, "type").s

\* A line has arrived on the connection, read or not, and the first one.
HasLine(c) == req[c] # << >> \/ lines[c] # << >>

FirstLine(c) == IF req[c] # << >> THEN req[c][1] ELSE lines[c][1]

\* The connection got exactly one response object with exactly one of the
\* keys result and error, and is closed; a type that is neither
\* list-functions nor call got "unknown request type".
OneResponse(c, l) ==
  /\ Len(resp[c]) = 1
  /\ DOMAIN resp[c][1] \in {{"result"}, {"error"}}
  /\ cst[c] = "closed"
  /\ ReqTypeOf(l) \notin {"list-functions", "call"} =>
       resp[c][1] = [error |-> JStr("unknown request type")]

\* At most one line of a connection is ever processed.
OneLineProcessed(c) ==
  Len(req[c]) <= 1 /\ Len(resp[c]) <= 1 /\ Len(invoked[c]) <= 1

CallDispatch ==
  \A c \in Conns :
    (req[c] # << >> /\ WellFormed(req[c][1]) /\ ReqTypeOf(req[c][1]) = "call") =>
      LET pa == Member(req[c][1].val, "params")
          nm == IF pa.t = "obj" THEN Member(pa, "name") ELSE JNull
          ar == IF pa.t = "obj" THEN Member(pa, "args") ELSE JNull
      IN  IF nm.t = "str" /\ ar.t = "list" /\ nm.s \in registry
          THEN /\ invoked[c] = <<[name |-> nm.s, args |-> ar.items]>>
               /\ \/ resp[c] = <<[result |-> CbValue(nm.s, ar.items)]>>
                  \/ resp[c] = <<[error |-> JStr("callback failed")]>>
          ELSE /\ invoked[c] = << >>
               /\ Len(resp[c]) = 1
               /\ DOMAIN resp[c][1] = {"error"}

\* C12 witness: one connection's call of the registered f was answered with
\* its value, the other's call without arguments with an error.
CallsAnswered ==
  /\ req["c1"] = <<LCallF>> /\ resp["c1"] = <<[result |-> CbValue("f", CallArgs)]>>
  /\ req["c2"] = <<LCallNoArgs>> /\ resp["c2"] = <<[error |-> JStr("missing args in call")]>>

\* C13: a line that is not a valid request object is answered with an
\* error response on its connection before the connection is closed.
MalformedAnswered ==
  \A c \in Conns :
    (hpc[c] = "done" /\ req[c] # << >> /\ ~WellFormed(req[c][1])) =>
      Len(resp[c]) = 1 /\ DOMAIN resp[c][1] = {"error"}

\* C14: once the server's context is cancelled no further connection is
\* accepted.
NoAcceptAfterCancel ==
  [][srvCtx => \A c \in Conns : cst'[c] = "open" => cst[c] = "open"]_vars

\* C15: after a cancellation the accept loop eventually exits and the
\* listener is closed.
ShutdownReachesStopped == srvCtx ~> (lpc = "exited" /\ lclosed)

\* C34: a handler whose connection has a line to read, or whose client has
\* closed the connection, eventually terminates.
HandlerTerminates ==
  \A c \in Conns :
    (hpc[c] \notin {"none", "done"} /\ (lines[c] # << >> \/ c \in cclosed))
      ~> (hpc[c] = "done")

\* C18: whatever the other handlers are doing, the accept loop takes its
\* next step and accepts a waiting connection, and a handler whose line has
\* arrived answers it.
HandlersIsolated ==
  /\ lpc = "select" => ENABLED (LoopDone \/ LoopDefault)
  /\ \A c \in Conns :
       /\ (lpc = "accept" /\ cst[c] = "pending") => ENABLED LoopAccept(c)
       /\ hpc[c] = "select" => ENABLED (HandleDone(c) \/ HandleDefault(c))
       /\ (hpc[c] = "scan" /\ lines[c] # << >>) =>
            ENABLED (\E order \in Orders(registry) : HandleRequest(c, order, TRUE))

\* C18 witness: c1 was accepted first and its handler still waits for a
\* first line while c2, accepted after it, has been answered.
AnsweredWhileOtherWaits ==
  /\ accepted = <<"c1", "c2">>
  /\ hpc["c1"] = "scan" /\ nsent["c1"] = 0
  /\ Len(resp["c2"]) = 1

\* C19: list-functions is answered with a list of exactly the registered
\* names, each once, an empty list for the empty registry.
ListFunctionsExact ==
  \A c \in Conns :
    req[c] = <<LList>> =>
      /\ Len(resp[c]) = 1 /\ DOMAIN resp[c][1] = {"result"}
      /\ resp[c][1].result.t = "list"
      /\ LET items == resp[c][1].result.items
         IN  /\ Len(items) = Cardinality(registry)
             /\ {items[i].s : i \in DOMAIN items} = registry

(***************************************************************************)
(* Assetgen from the start of the callback server to its return: the       *)
(* temporary directory of the socket (SpecGen)                             *)
(***************************************************************************)

\* The error "workers must be at least 1".
ConfigErr == [kind |-> "config"]

\* The error "cannot read from working directory".
WdErr == [kind |-> "wd"]

\* An error of the steps between the checks and the callback server.
SetupErr == [kind |-> "setup"]

\* A check that would let every worker count through.
WorkersValidAlways(n) == TRUE

\* if flags.Workers < 1 { return errors.New(...) }
WorkersValid(n) == n >= 1

\* Assetgen is called with its flags.
InitGen ==
  /\ InitPacker /\ InitNoPlan /\ InitNoPool /\ InitNoIpc /\ InitNoAsset /\ InitNoInv
  /\ epc = "flags" /\ ei = 0 /\ started = << >>
  /\ sret = [i \in Steps |-> NoErr]
  /\ lastErr = NoErr /\ exret = NoErr
  /\ finalView = {} /\ packedBy = {}
  /\ tmpDir = "none" /\ deferred = FALSE /\ gret = NoErr
  /\ flagWorkers \in 0..NWorkers
  /\ exec = << >>
  /\ InitNoFind

notGen == <<packVars, planVars, poolVars, assetVars, invVars, flagWorkers, exec, findVars>>

\* Assetgen returns err.
AssetgenReturns(err) ==
  /\ gret' = err
  /\ epc' = "exit"
  /\ UNCHANGED <<ei, started, sret, lastErr, exret, finalView, packedBy>>

\* The working directory cannot be read or resolved: return the error.
WdUnusable ==
  /\ epc = "flags"
  /\ AssetgenReturns(WdErr)
  /\ UNCHANGED <<tmpDir, deferred, ipcVars, notGen>>

\* flags.Workers < 1: return "workers must be at least 1".
WorkersRejected ==
  /\ epc = "flags"
  /\ ~WorkersValid(flagWorkers)
  /\ AssetgenReturns(ConfigErr)
  /\ UNCHANGED <<tmpDir, deferred, ipcVars, notGen>>

\* The working directory and the worker count pass their checks.
ChecksPass ==
  /\ epc = "flags"
  /\ WorkersValid(flagWorkers)
  /\ epc' = "setup"
  /\ UNCHANGED <<ei, started, sret, lastErr, exret, finalView, packedBy>>
  /\ UNCHANGED <<genVars, ipcVars, notGen>>

\* The trans func name is invalid, or Chdir, checkSetup, Setenv, LoadScript,
\* ConfigDeps, fixNodeModulesBinLinks, the making of dist or pack.NewBase
\* fails: return the error.
SetupFails ==
  /\ epc = "setup"
  /\ AssetgenReturns(SetupErr)
  /\ UNCHANGED <<tmpDir, deferred, ipcVars, notGen>>

\* The script is loaded (its steps are registered), dist and ctxt are made;
\* startCallbackServer is next.
SetupDone ==
  /\ epc = "setup"
  /\ epc' = "startcb"
  /\ UNCHANGED <<ei, started, sret, lastErr, exret, finalView, packedBy>>
  /\ UNCHANGED <<genVars, ipcVars, notGen>>

\* NewIpcServer: ioutil.TempDir fails; startCallbackServer and Assetgen
\* return the error.
TempDirFails ==
  /\ epc = "startcb"
  /\ AssetgenReturns(IoErr)
  /\ UNCHANGED <<tmpDir, deferred, ipcVars, notGen>>

\* NewIpcServer: ioutil.TempDir makes the directory; cbs.Run is next.
TempDirMade ==
  /\ epc = "startcb"
  /\ tmpDir' = "exists"
  /\ epc' = "listen"
  /\ UNCHANGED <<ei, started, sret, lastErr, exret, finalView, packedBy>>
  /\ UNCHANGED <<deferred, gret, ipcVars, notGen>>

\* Run: net.Listen fails; startCallbackServer returns the error and
\* Assetgen returns "could not start callback server".
ListenFails ==
  /\ epc = "listen"
  /\ AssetgenReturns(IoErr)
  /\ UNCHANGED <<tmpDir, deferred, ipcVars, notGen>>

\* Run: net.Listen succeeds, the goroutines start; Assetgen registers its
\* deferred cancel and RemoveAll.
ListenOk ==
  /\ epc = "listen"
  /\ lpc' = "select" /\ sigpc' = "wait"
  /\ deferred' = TRUE
  /\ epc' = "setenv"
  /\ UNCHANGED <<ei, started, sret, lastErr, exret, finalView, packedBy>>
  /\ UNCHANGED <<registry, cclosed, srvCtx, lclosed, cst, hpc, lines, nsent, req, resp,
                 invoked, accepted>>
  /\ UNCHANGED <<tmpDir, gret, notGen>>

\* os.Setenv("ASSETGEN_SOCK", sock) fails: return.
SetenvFails ==
  /\ epc = "setenv"
  /\ gret' = IoErr
  /\ epc' = "unwind"
  /\ UNCHANGED <<ei, started, sret, lastErr, exret, finalView, packedBy>>
  /\ UNCHANGED <<tmpDir, deferred, ipcVars, notGen>>

\* os.Setenv succeeds: s.Execute(dist) is called.
SetenvOk ==
  /\ epc = "setenv"
  /\ epc' = "loop"
  /\ UNCHANGED <<ei, started, sret, lastErr, exret, finalView, packedBy>>
  /\ UNCHANGED <<genVars, ipcVars, notGen>>

\* writeAssetsGo returns an error: return "could not write".
WriteAssetsFails ==
  /\ epc = "returned" /\ ExecuteSucceeded(exret)
  /\ gret' = IoErr
  /\ epc' = "unwind"
  /\ UNCHANGED <<ei, started, sret, lastErr, exret, finalView, packedBy>>
  /\ UNCHANGED <<tmpDir, deferred, ipcVars, notGen>>

\* Assetgen returns after Execute failed or after writeAssetsGo returned
\* nil.
AssetgenLeaves ==
  /\ epc \in {"failed", "done"}
  /\ gret' = IF epc = "done" THEN NilErr ELSE exret
  /\ epc' = "unwind"
  /\ UNCHANGED <<ei, started, sret, lastErr, exret, finalView, packedBy>>
  /\ UNCHANGED <<tmpDir, deferred, ipcVars, notGen>>

\* The deferred function runs: cancel(), os.RemoveAll(filepath.Dir(sock)).
DeferredRuns ==
  /\ epc = "unwind" /\ deferred
  /\ srvCtx' = TRUE
  /\ tmpDir' = "removed"
  /\ epc' = "exit"
  /\ UNCHANGED <<ei, started, sret, lastErr, exret, finalView, packedBy>>
  /\ UNCHANGED <<registry, cclosed, lpc, lclosed, sigpc, cst, hpc, lines, nsent, req, resp,
                 invoked, accepted>>
  /\ UNCHANGED <<deferred, gret, notGen>>

NextGen ==
  \/ WdUnusable
  \/ WorkersRejected
  \/ ChecksPass
  \/ SetupFails
  \/ SetupDone
  \/ TempDirFails
  \/ TempDirMade
  \/ ListenFails
  \/ ListenOk
  \/ SetenvFails
  \/ SetenvOk
  \/ NextExec
  \/ WriteAssetsFails
  \/ AssetgenLeaves
  \/ DeferredRuns

SpecGen == InitGen /\ [][NextGen]_vars

\* C16: on every exit path of Assetgen taken after the temporary directory
\* was made, the directory has been removed when Assetgen returns.
TmpDirRemovedOnExit ==
  (epc = "exit" /\ tmpDir # "none") => tmpDir = "removed"

(***************************************************************************)
(* The asset($url) callback (script.go, startCallbackServer) answering     *)
(* while the steps pack (SpecAsset)                                        *)
(***************************************************************************)

\* strings.HasPrefix(s, pre)
HasPrefix(s, pre) == Len(s) >= Len(pre) /\ SubSeq(s, 1, Len(pre)) = pre

\* strings.LastIndex(s, c) for a one-character c, counted from 1; 0 when
\* there is none.
RECURSIVE LastIndex(_, _)
LastIndex(s, c) ==
  IF s = EmptyStr THEN 0
  ELSE IF s[Len(s)] = c THEN Len(s)
  ELSE LastIndex(SubSeq(s, 1, Len(s) - 1), c)

\* if strings.HasPrefix(z, "../webfonts/") { z = z[2:] }
FixWebfonts(z) ==
  IF HasPrefix(z, <<".", ".", "/", "w", "e", "b", "f", "o", "n", "t", "s", "/">>)
  THEN SliceFrom(z, 2) ELSE z

\* Where the saved query string begins: the last "?", else the last "#",
\* else past the end.
QueryAt(z) ==
  IF LastIndex(z, "?") # 0 THEN LastIndex(z, "?")
  ELSE IF LastIndex(z, "#") # 0 THEN LastIndex(z, "#")
  ELSE Len(z) + 1

\* z and qstr after "save query string".
AssetName(url) == SliceTo(FixWebfonts(url), QueryAt(FixWebfonts(url)) - 1)

AssetQstr(url) == SliceFrom(FixWebfonts(url), QueryAt(FixWebfonts(url)) - 1)

\* "/" + strings.TrimPrefix(z, "/")
AssetKey(z) == <<"/">> \o (IF HasPrefix(z, <<"/">>) THEN Tail(z) ELSE z)

\* fmt.Sprintf("__INV:%s%s__", z, qstr)
Placeholder(z, qstr) == <<"_", "_", "I", "N", "V", ":">> \o z \o qstr \o <<"_", "_">>

\* fmt.Sprintf("url('/_/%s%s')", n, qstr)
AssetUrl(n, qstr) ==
  <<"u", "r", "l", "(", "'", "/", "_", "/">> \o n \o qstr \o <<"'", ")">>

\* n, ok := m[key]; if !ok { n = placeholder }; return url(...)
AssetResult(url, mm) ==
  AssetUrl(IF AssetKey(AssetName(url)) \in DOMAIN mm
           THEN mm[AssetKey(AssetName(url))]
           ELSE Placeholder(AssetName(url), AssetQstr(url)),
           AssetQstr(url))

\* The urls the stylesheets ask for.
QueryG == <<"/", "g", ".", "j", "s">>

QueryAV == NameA1 \o <<"?", "v">>

QueryFont == <<".", ".", "/", "w", "e", "b", "f", "o", "n", "t", "s", "/", "f">>

Queries == {NameA0, NameA1, NameB, NameBD, NameM, QueryG, QueryAV, QueryFont}

\* Process 1 runs the steps' Pack calls, process 2 the handler's callback.
InitAsset ==
  /\ InitPacker /\ InitNoPlan /\ InitNoPool /\ InitNoExec
  /\ InitNoIpc /\ InitNoGen /\ InitNoInv
  /\ flagWorkers = NWorkers
  /\ exec = << >>
  /\ InitNoFind
  /\ aq = EmptyStr /\ asnap = {} /\ ares = [op |-> "none"]

notAsset == <<planVars, poolVars, execVars, ipcVars, genVars, invVars, flagWorkers, exec, findVars>>

\* A step packs name.
AssetPack(name, buf) ==
  /\ calls < MaxCalls + 1
  /\ PackLock(1, name, buf)
  /\ UNCHANGED <<assetVars, notAsset>>

\* The handler calls asset(url): the arguments pass the checks, the query
\* string is saved, dist.Manifest() is called.
AssetQuery(url) ==
  /\ aq = EmptyStr
  /\ calls < MaxCalls + 1
  /\ aq' = url
  /\ asnap' = DOMAIN lastPacked
  /\ ManifestRLock(2)
  /\ UNCHANGED <<ares, notAsset>>

\* dist.Manifest() returns m; the callback looks the name up and returns.
AssetReturn ==
  /\ aq # EmptyStr
  /\ ManifestReturn(2)
  /\ ares' = [op |-> "asset", q |-> aq, snap |-> asnap, packed |-> lastPacked,
              url |-> AssetResult(aq, m[2])]
  /\ aq' = EmptyStr
  /\ asnap' = {}
  /\ UNCHANGED notAsset

NextAsset ==
  \/ \E name \in RawNames, buf \in Contents : AssetPack(name, buf)
  \/ PackWritten(1) /\ UNCHANGED <<assetVars, notAsset>>
  \/ PackHash(1) /\ UNCHANGED <<assetVars, notAsset>>
  \/ \E url \in Queries : AssetQuery(url)
  \/ \E n \in DOMAIN files : ManifestSkip(2, n) /\ UNCHANGED <<assetVars, notAsset>>
  \/ \E n \in DOMAIN files : ManifestVisit(2, n) /\ UNCHANGED <<assetVars, notAsset>>
  \/ \E n \in DOMAIN files : ManifestPanic(2, n) /\ UNCHANGED <<assetVars, notAsset>>
  \/ AssetReturn

SpecAsset == InitAsset /\ [][NextAsset]_vars

\* C17: the callback never ends the program; for a name packed when the
\* query began its result carries the entry's current fingerprint, never the
\* placeholder; for a name not packed when it returns its result carries
\* the placeholder __INV:<name>__.
AssetCallbackContract ==
  /\ ~crashed
  /\ ares.op = "asset" =>
       LET key  == <<"/">> \o (IF Head(AssetName(ares.q)) = "/"
                               THEN Tail(AssetName(ares.q)) ELSE AssetName(ares.q))
           qstr == AssetQstr(ares.q)
       IN  /\ key \in ares.snap =>
                ares.url = <<"u", "r", "l", "(", "'", "/", "_", "/">>
                           \o Fingerprint(key, md5hex(ares.packed[key]))
                           \o qstr \o <<"'", ")">>
           /\ key \notin DOMAIN ares.packed =>
                ares.url = <<"u", "r", "l", "(", "'", "/", "_", "/", "_", "_", "I", "N", "V", ":">>
                           \o AssetName(ares.q) \o qstr \o <<"_", "_">>
                           \o qstr \o <<"'", ")">>

\* C26: with a worker count below 1 Assetgen returns an error from its
\* checks: the script is never loaded, the callback server never started,
\* no step called and no worker started.
WorkerCountValidated ==
  flagWorkers < 1 =>
    /\ epc \in {"flags", "exit"}
    /\ epc = "exit" => gret \in {ConfigErr, WdErr}
    /\ tmpDir = "none" /\ lpc = "off" /\ ~deferred
    /\ started = << >> /\ calls = 0
    /\ \A w \in Workers : wpc[w] = "exit" /\ wret[w] = NoErr

\* C26 witness: Assetgen has returned the configuration error for a worker
\* count of 0.
WorkersRejectedReturned ==
  flagWorkers = 0 /\ epc = "exit" /\ gret = ConfigErr

(***************************************************************************)
(* pack/pack.go: WriteTo, whose generator reads the store back through     *)
(* Open, next to concurrent Add calls (SpecWrite)                          *)
(***************************************************************************)

\* The root of the store, which the generator opens first.
Root == <<"/">>

\* sync.RWMutex: a goroutine inside Lock, waiting for the readers to leave.
WriterPending == \E q \in Procs : ppc[q] = "add_wait"

\* sync.RWMutex: RLock waits while a writer holds the lock or is pending.
CanRLockNow == writer = 0 /\ ~WriterPending

InitWrite ==
  /\ InitPacker /\ InitNoPlan /\ InitNoPool /\ InitNoExec /\ InitNoMore
  /\ flagWorkers = NWorkers
  /\ exec = << >>
  /\ InitNoFind

\* Add: p.Lock() is called: the writer is announced and waits.
AddCall(p, name, buf) ==
  /\ ppc[p] = "idle" /\ calls < MaxCalls
  /\ ppc' = [ppc EXCEPT ![p] = "add_wait"]
  /\ pname' = [pname EXCEPT ![p] = PackName(name)]
  /\ pbuf' = [pbuf EXCEPT ![p] = buf]
  /\ calls' = calls + 1
  /\ UNCHANGED <<files, h, writer, readers, visited, m, ret, crashed, lastWrite, lastPacked>>
  /\ UNCHANGED notPacker

\* Add: p.Lock() returns: no reader and no writer holds the lock.
AddAcquire(p) ==
  /\ ppc[p] = "add_wait"
  /\ CanLock
  /\ writer' = p
  /\ ppc' = [ppc EXCEPT ![p] = "add_locked"]
  /\ UNCHANGED <<files, h, readers, pname, pbuf, visited, m, ret, calls, crashed,
                 lastWrite, lastPacked>>
  /\ UNCHANGED notPacker

\* Add: MkdirAll, Create, Write, p.h[name] = hex md5; return nil (Unlock).
AddStored(p) ==
  /\ ppc[p] = "add_locked"
  /\ MkdirAllPossible(files, pname[p]) /\ OpenPossible(files, pname[p])
  /\ files' = MapPut(files, StorePath(pname[p]), pbuf[p])
  /\ h' = MapPut(h, pname[p], md5hex(pbuf[p]))
  /\ lastWrite' = MapPut(lastWrite, StorePath(pname[p]), [name |-> pname[p], ok |-> TRUE])
  /\ lastPacked' = MapPut(lastPacked, pname[p], pbuf[p])
  /\ writer' = 0
  /\ ppc' = [ppc EXCEPT ![p] = "idle"]
  /\ pname' = [pname EXCEPT ![p] = EmptyStr]
  /\ pbuf' = [pbuf EXCEPT ![p] = EmptyStr]
  /\ ret' = [ret EXCEPT ![p] = [op |-> "add", err |-> FALSE]]
  /\ UNCHANGED <<readers, visited, m, calls, crashed>>
  /\ UNCHANGED notPacker

\* Add: MkdirAll or Create fails: return err (Unlock).
AddFails(p) ==
  /\ ppc[p] = "add_locked"
  /\ writer' = 0
  /\ ppc' = [ppc EXCEPT ![p] = "idle"]
  /\ pname' = [pname EXCEPT ![p] = EmptyStr]
  /\ pbuf' = [pbuf EXCEPT ![p] = EmptyStr]
  /\ ret' = [ret EXCEPT ![p] = [op |-> "add", err |-> TRUE]]
  /\ UNCHANGED <<files, h, readers, visited, m, calls, crashed, lastWrite, lastPacked>>
  /\ UNCHANGED notPacker

\* WriteTo: p.RLock(); vfsgen.Generate(p, ...) starts.
WriteToRLock(p) ==
  /\ ppc[p] = "idle" /\ calls < MaxCalls
  /\ CanRLockNow
  /\ readers' = readers \cup {p}
  /\ visited' = [visited EXCEPT ![p] = {}]
  /\ ppc' = [ppc EXCEPT ![p] = "wt_generate"]
  /\ calls' = calls + 1
  /\ UNCHANGED <<files, h, writer, pname, pbuf, m, ret, crashed, lastWrite, lastPacked>>
  /\ UNCHANGED notPacker

\* The generator calls p.Open(n) for the root or a file it has not read
\* yet: Open calls p.RLock().
OpenCall(p, n) ==
  /\ ppc[p] = "wt_generate"
  /\ n \in (DOMAIN files \cup {Root}) \ visited[p]
  /\ pname' = [pname EXCEPT ![p] = n]
  /\ ppc' = [ppc EXCEPT ![p] = "wt_open_wait"]
  /\ UNCHANGED <<files, h, writer, readers, pbuf, visited, m, ret, calls, crashed,
                 lastWrite, lastPacked>>
  /\ UNCHANGED notPacker

\* Open: p.RLock() returns; p.fs.Open(name); the deferred RUnlock.
OpenRLock(p) ==
  /\ ppc[p] = "wt_open_wait"
  /\ CanRLockNow
  /\ visited' = [visited EXCEPT ![p] = @ \cup {pname[p]}]
  /\ pname' = [pname EXCEPT ![p] = EmptyStr]
  /\ ppc' = [ppc EXCEPT ![p] = "wt_generate"]
  /\ UNCHANGED <<files, h, writer, readers, pbuf, m, ret, calls, crashed,
                 lastWrite, lastPacked>>
  /\ UNCHANGED notPacker

\* The generator has read everything: WriteTo returns (deferred RUnlock).
WriteToReturn(p) ==
  /\ ppc[p] = "wt_generate"
  /\ visited[p] = DOMAIN files \cup {Root}
  /\ readers' = readers \ {p}
  /\ visited' = [visited EXCEPT ![p] = {}]
  /\ ppc' = [ppc EXCEPT ![p] = "idle"]
  /\ ret' = [ret EXCEPT ![p] = [op |-> "writeto", err |-> FALSE]]
  /\ UNCHANGED <<files, h, writer, pname, pbuf, m, calls, crashed, lastWrite, lastPacked>>
  /\ UNCHANGED notPacker

NextWrite ==
  \/ \E p \in Procs, name \in RawNames, buf \in Contents : AddCall(p, name, buf)
  \/ \E p \in Procs : AddAcquire(p)
  \/ \E p \in Procs : AddStored(p)
  \/ \E p \in Procs : AddFails(p)
  \/ \E p \in Procs : WriteToRLock(p)
  \/ \E p \in Procs, n \in DOMAIN files \cup {Root} : OpenCall(p, n)
  \/ \E p \in Procs : OpenRLock(p)
  \/ \E p \in Procs : WriteToReturn(p)

SpecWrite == InitWrite /\ [][NextWrite]_vars

\* C29: a WriteTo whose generator is inside Open's RLock is never stuck
\* behind an Add waiting for the write lock: either the read lock can be
\* taken or a writer holds the lock and will release it.
WriteToNeverStuck ==
  \A p \in Procs :
    ppc[p] = "wt_open_wait" => (writer # 0 \/ ENABLED OpenRLock(p))

(***************************************************************************)
(* LoadScript registers the script's steps and the directory steps;        *)
(* Execute runs them over one Packer (SpecScript)                          *)
(***************************************************************************)

\* jsDir
JsDir == <<"j", "s">>

\* The static directories and js outputs a script may name.
StaticDirs == {ImagesDir, JsDir}

JsFiles == {NameA0}

\* The script's calls: staticDir(name) and js(fn, ...).
ScriptCalls ==
  {[kind |-> "staticDir", name |-> d] : d \in StaticDirs}
    \cup {[kind |-> "js", name |-> fn] : fn \in JsFiles}

\* The files under assets/<dir>: the image directory holds src, assets/js
\* holds a source file of the js step's name.
AssetFiles(dir, images) ==
  IF dir = ImagesDir THEN images ELSE [fn \in JsFiles |-> <<"x", "y">>]

\* What a step hands to the Packer, name -> bytes.  staticDir packs every
\* file of the directory as it is under <name>/<rel>; js packs the uglified
\* output under js/<fn>; the image step packs the optimized files under
\* images/<fn>.
StepPlan(st, images) ==
  IF st.kind = "staticDir"
  THEN [n \in {st.name \o <<"/">> \o fn : fn \in DOMAIN AssetFiles(st.name, images)} |->
          AssetFiles(st.name, images)[SliceFrom(n, Len(st.name) + 1)]]
  ELSE IF st.kind = "js"
  THEN [n \in {JsDir \o <<"/">> \o st.name} |-> <<"x">>]
  ELSE [n \in {ImagePackName(fn) : fn \in DOMAIN images} |->
          Optimize(images[SliceFrom(n, Len(ImagesDir) + 1)])]

InitScript ==
  /\ InitPacker /\ InitNoPlan /\ InitNoIpc /\ InitNoGen /\ InitNoAsset /\ InitNoInv
  /\ flagWorkers = NWorkers
  /\ src \in {[fn \in S |-> <<"x">>] : S \in SUBSET {ImgA, ImgB}}
  /\ cmd5 = NoMap /\ cout = NoMap
  /\ runs = 0 /\ spc = "idle" /\ widx = 0
  /\ all = << >> /\ changed = << >> /\ ch = << >>
  /\ wpc = [w \in Workers |-> "exit"]
  /\ witem = [w \in Workers |-> EmptyStr]
  /\ wret = [w \in Workers |-> NoErr]
  /\ ctxDone = FALSE /\ egErr = NilErr /\ stepErr = NoErr /\ packIdx = 0
  /\ firstFailed = EmptyStr
  /\ xformed = << >>
  /\ epc = "load" /\ ei = 0 /\ started = << >>
  /\ sret = [i \in Steps |-> NoErr]
  /\ lastErr = NoErr /\ exret = NoErr
  /\ finalView = {} /\ packedBy = {}
  /\ exec = << >>
  /\ InitNoFind

notScript == <<poolVars, ipcVars, genVars, assetVars, invVars, flagWorkers, findVars>>

\* vm.Execute runs a call of the script: the step is appended to s.exec.
ScriptRegisters(call) ==
  /\ epc = "load" /\ Len(exec) < NSteps
  /\ exec' = Append(exec, call)
  /\ UNCHANGED <<execVars, packVars, planVars, notScript>>

\* The script is over: "add directory handling steps"; the image step is
\* added when the image directory is present.  LoadScript returns and
\* Assetgen goes on to Execute.
DirStepsAdded ==
  /\ epc = "load"
  /\ exec' = IF src # NoMap THEN Append(exec, [kind |-> "images", name |-> ImagesDir])
             ELSE exec
  /\ epc' = "loop"
  /\ UNCHANGED <<ei, started, sret, lastErr, exret, finalView, packedBy>>
  /\ UNCHANGED <<packVars, planVars, notScript>>

\* Execute: the loop calls the next f of s.exec; the step finds the files
\* it is going to pack.
ScriptStepStarts ==
  /\ epc = "loop" /\ ei < Len(exec)
  /\ plan' = StepPlan(exec[ei + 1], src)
  /\ todo' = DOMAIN StepPlan(exec[ei + 1], src)
  /\ epc' = "step"
  /\ started' = Append(started, ei + 1)
  /\ UNCHANGED <<ei, sret, lastErr, exret, finalView, packedBy>>
  /\ UNCHANGED <<packVars, exec, notScript>>

\* The running step calls dist.PackFile for its next file.
ScriptStepPacks(name) ==
  /\ epc = "step" /\ name \in todo
  /\ PackLock(1, name, plan[name])
  /\ todo' = todo \ {name}
  /\ plan' = plan
  /\ UNCHANGED <<execVars, exec, notScript>>

\* The running step fails (its directory is missing, a tool fails, or
\* PackFile returned an error): Execute returns the error.
ScriptStepFails ==
  /\ epc = "step" /\ ppc[1] = "idle"
  /\ exret' = StepErr(ei + 1)
  /\ epc' = "returned"
  /\ UNCHANGED <<ei, started, sret, lastErr, finalView, packedBy>>
  /\ UNCHANGED <<packVars, planVars, exec, notScript>>

\* The running step has packed its files and returns nil: on to the next.
ScriptStepDone ==
  /\ epc = "step" /\ ppc[1] = "idle" /\ todo = {}
  /\ ei' = ei + 1
  /\ epc' = "loop"
  /\ UNCHANGED <<started, sret, lastErr, exret, finalView, packedBy>>
  /\ UNCHANGED <<packVars, planVars, exec, notScript>>

\* Execute: the loop is over: return nil.
ScriptExecuted ==
  /\ epc = "loop" /\ ei = Len(exec)
  /\ exret' = NilErr
  /\ epc' = "returned"
  /\ UNCHANGED <<ei, started, sret, lastErr, finalView, packedBy>>
  /\ UNCHANGED <<packVars, planVars, exec, notScript>>

NextScript ==
  \/ \E call \in ScriptCalls : ScriptRegisters(call)
  \/ DirStepsAdded
  \/ ScriptStepStarts
  \/ \E name \in todo : ScriptStepPacks(name)
  \/ epc = "step" /\ PackWritten(1) /\ UNCHANGED notPacker
  \/ epc = "step" /\ PackHash(1) /\ UNCHANGED notPacker
  \/ ScriptStepFails
  \/ ScriptStepDone
  \/ ScriptExecuted

SpecScript == InitScript /\ [][NextScript]_vars

\* C30: within one run no Pack call is made for a logical name that an
\* earlier Pack call of the run has packed.
WriteOnceNames ==
  [][\A p \in Procs :
       (ppc[p] = "idle" /\ ppc'[p] = "pack_store") =>
         pname'[p] \notin DOMAIN lastPacked]_vars

(***************************************************************************)
(* WriteManifest and WriteManifestInverted next to concurrent Pack calls   *)
(* (SpecManW)                                                              *)
(***************************************************************************)

\* Byte order of two strings: a is before b.
RECURSIVE StrLess(_, _)
StrLess(a, b) ==
  IF b = EmptyStr THEN FALSE
  ELSE IF a = EmptyStr THEN TRUE
  ELSE IF Head(a) = Head(b) THEN StrLess(Tail(a), Tail(b))
  ELSE Ascii[Head(a)] < Ascii[Head(b)]

\* encoding/json writes a map's keys sorted.
SortedKeys(S) ==
  CHOOSE sq \in Orders(S) : \A i \in 1..(Len(sq) - 1) : StrLess(sq[i], sq[i + 1])

\* "key":"value" for each key of the sequence, joined by commas.
RECURSIVE MarshalEntries(_, _)
MarshalEntries(mp, keys) ==
  IF keys = << >> THEN EmptyStr
  ELSE <<"\"">> \o Head(keys) \o <<"\"", ":", "\"">> \o mp[Head(keys)] \o <<"\"">>
       \o (IF Len(keys) > 1 THEN <<",">> ELSE EmptyStr)
       \o MarshalEntries(mp, Tail(keys))

\* json.MarshalIndent(m, "", "  "), without the white space.
MarshalMap(mp) == <<"{">> \o MarshalEntries(mp, SortedKeys(DOMAIN mp)) \o <<"}">>

\* The store path of p.manifest.
ManifestPath == <<"/">> \o ManifestName

InitManW ==
  /\ InitPacker /\ InitNoPlan /\ InitNoPool /\ InitNoExec /\ InitNoMore
  /\ flagWorkers = NWorkers
  /\ exec = << >>
  /\ InitNoFind

\* The process is inside WriteManifest, back from Manifest: it holds no lock.
BackFromManifest(p) == ppc[p] = "idle" /\ ret[p].op = "manifest"

\* A caller calls Pack.
ManWPack(p, name, buf) ==
  /\ calls < MaxCalls /\ ~BackFromManifest(p)
  /\ PackLock(p, name, buf)
  /\ UNCHANGED notPacker

\* A caller calls WriteManifest or WriteManifestInverted: ManifestBytes (or
\* ManifestInvertedBytes) calls Manifest.
WriteManifestCall(p) ==
  /\ calls < MaxCalls /\ ~BackFromManifest(p)
  /\ ManifestRLock(p)
  /\ UNCHANGED notPacker

\* Manifest returned an error: return err.
WriteManifestFails(p) ==
  /\ ~crashed /\ BackFromManifest(p)
  /\ ~ret[p].panic /\ ret[p].err
  /\ ret' = [ret EXCEPT ![p] = [op |-> "writemanifest", err |-> TRUE]]
  /\ UNCHANGED <<files, h, writer, readers, ppc, pname, pbuf, visited, m, calls,
                 crashed, lastWrite, lastPacked>>
  /\ UNCHANGED notPacker

\* Manifest returned the map: encode it (inverted first, for
\* WriteManifestInverted) and afero.WriteFile(p.fs, p.manifest, buf, 0644).
WriteManifestStore(p, inverted) ==
  /\ ~crashed /\ BackFromManifest(p)
  /\ ~ret[p].panic /\ ~ret[p].err
  /\ \E order \in Orders(DOMAIN ret[p].map) :
       files' = MapPut(files, ManifestPath,
                       MarshalMap(IF inverted THEN InvertIn(ret[p].map, order)
                                  ELSE ret[p].map))
  /\ ret' = [ret EXCEPT ![p] = [op |-> IF inverted THEN "writemanifestinverted"
                                       ELSE "writemanifest",
                                err |-> FALSE]]
  /\ UNCHANGED <<h, writer, readers, ppc, pname, pbuf, visited, m, calls,
                 crashed, lastWrite, lastPacked>>
  /\ UNCHANGED notPacker

NextManW ==
  \/ \E p \in Procs, name \in {NameA0, NameB}, buf \in Contents : ManWPack(p, name, buf)
  \/ \E p \in Procs : PackStoreRefused(p) /\ UNCHANGED notPacker
  \/ \E p \in Procs : \E part \in StrictPrefixes(pbuf[p]) :
        PackWriteFails(p, part) /\ UNCHANGED notPacker
  \/ \E p \in Procs : PackWritten(p) /\ UNCHANGED notPacker
  \/ \E p \in Procs : PackHash(p) /\ UNCHANGED notPacker
  \/ \E p \in Procs : WriteManifestCall(p)
  \/ \E p \in Procs, n \in DOMAIN files : ManifestSkip(p, n) /\ UNCHANGED notPacker
  \/ \E p \in Procs, n \in DOMAIN files : ManifestVisit(p, n) /\ UNCHANGED notPacker
  \/ \E p \in Procs, n \in DOMAIN files : ManifestPanic(p, n) /\ UNCHANGED notPacker
  \/ \E p \in Procs : ManifestWalkErr(p) /\ UNCHANGED notPacker
  \/ \E p \in Procs : ManifestReturn(p) /\ UNCHANGED notPacker
  \/ \E p \in Procs : WriteManifestFails(p)
  \/ \E p \in Procs, inverted \in BOOLEAN : WriteManifestStore(p, inverted)

SpecManW == InitManW /\ [][NextManW]_vars

\* What Manifest would return for the Packer's state as it is.
ManifestNow ==
  [n \in {f \in DOMAIN files : ~ManifestSkips(f)} |->
     IF Len(MapGet(h, n)) >= 6 THEN Fingerprint(n, MapGet(h, n)) ELSE EmptyStr]

\* C35: when WriteManifest or WriteManifestInverted writes the manifest file
\* into the store, no Pack is inside its critical section, and what is
\* written is the encoding of the manifest of the Packer's state at that
\* instant.
ManifestWrittenUnderLock ==
  [][\A p \in Procs :
       (/\ BackFromManifest(p)
        /\ ret'[p].op \in {"writemanifest", "writemanifestinverted"}
        /\ ~ret'[p].err) =>
         /\ \A q \in Procs : ~InPackCritical(q)
         /\ IF ret'[p].op = "writemanifest"
            THEN files'[ManifestPath] = MarshalMap(ManifestNow)
            ELSE \E order \in Orders(DOMAIN ManifestNow) :
                   files'[ManifestPath] = MarshalMap(InvertIn(ManifestNow, order))]_vars

(***************************************************************************)
(* binpack's findFiles over a directory tree with a symbolic link to an    *)
(* ancestor (SpecFind).  A path is its list of elements and whether it is  *)
(* rooted; the working directory is /w.  The tree:                         *)
(*   /w/a/f  /w/a/b/g  regular files,  /w/a/b/l  the link.                 *)
(***************************************************************************)

\* Symbolic links the system follows while it resolves one path before it
\* gives up with ELOOP.
MaxLinks == 3

Cwd == <<"w">>

DirA == <<"w", "a">>

DirB == <<"w", "a", "b">>

LinkL == <<"w", "a", "b", "l">>

RealDirs == {DirA, DirB}

RealFiles == {<<"w", "a", "f">>, <<"w", "a", "b", "g">>}

\* The link's target: its own directory and the directory above it given
\* relative, and the directory above it given absolute.
LinkTargets ==
  {[abs |-> FALSE, el |-> <<".">>], [abs |-> FALSE, el |-> <<"..">>],
   [abs |-> TRUE, el |-> DirA]}

\* Bp.Prefix: none, or the working directory.
NoPrefix == [abs |-> FALSE, el |-> << >>]

\* Lexical cleaning (filepath.Clean): "." is dropped, ".." drops the element
\* before it.
RECURSIVE LexClean(_, _)
LexClean(elems, acc) ==
  IF elems = << >> THEN acc
  ELSE IF Head(elems) = "." THEN LexClean(Tail(elems), acc)
  ELSE IF Head(elems) = ".."
  THEN LexClean(Tail(elems), IF acc = << >> THEN acc ELSE SubSeq(acc, 1, Len(acc) - 1))
  ELSE LexClean(Tail(elems), Append(acc, Head(elems)))

\* filepath.Abs: join with the working directory unless rooted, then Clean.
FAbs(p) ==
  [abs |-> TRUE, el |-> LexClean(IF p.abs THEN p.el ELSE Cwd \o p.el, << >>)]

\* filepath.Join(p, name)
FJoin(p, name) == [abs |-> p.abs, el |-> LexClean(Append(p.el, name), << >>)]

\* The system's resolution of a rooted path: element by element, the link
\* replaced by its target (taken from the link's directory unless rooted);
\* the real path and the number of links followed.
RECURSIVE Resolve(_, _, _, _)
Resolve(elems, cur, n, target) ==
  IF elems = << >> THEN [el |-> cur, links |-> n]
  ELSE IF Append(cur, Head(elems)) = LinkL
  THEN Resolve(Tail(elems),
               LexClean(IF target.abs THEN target.el ELSE cur \o target.el, << >>),
               n + 1, target)
  ELSE Resolve(Tail(elems), Append(cur, Head(elems)), n, target)

RealOf(p, target) == Resolve(FAbs(p).el, << >>, 0, target)

\* os.Stat(p): follows links.
Stat(p, target) ==
  IF RealOf(p, target).links > MaxLinks THEN "eloop"
  ELSE IF RealOf(p, target).el \in RealDirs THEN "dir"
  ELSE IF RealOf(p, target).el \in RealFiles THEN "file"
  ELSE "noent"

\* fd.Readdir(0) and sort.Sort(byName(list)): the names of a real directory.
Readdir(real) == IF real = DirA THEN <<"b", "f">> ELSE <<"g", "l">>

\* The os.FileInfo of an entry, which Readdir takes without following links.
EntryKind(real, name) ==
  IF Append(real, name) = LinkL THEN "link"
  ELSE IF Append(real, name) \in RealDirs THEN "dir"
  ELSE "file"

\* The outermost call: Run calls findFiles(input.Path, bp.Prefix,
\* input.Recursive, ...) with new maps.
InitFind ==
  /\ InitPacker /\ InitNoPlan /\ InitNoPool /\ InitNoExec
  /\ InitNoIpc /\ InitNoGen /\ InitNoAsset /\ InitNoInv
  /\ flagWorkers = NWorkers
  /\ exec = << >>
  /\ fin \in [dir : {[abs |-> FALSE, el |-> <<"a">>], [abs |-> TRUE, el |-> DirA]},
              prefix : {NoPrefix, [abs |-> TRUE, el |-> Cwd]},
              recursive : BOOLEAN,
              target : LinkTargets]
  /\ fstack = <<[dir |-> fin.dir, pc |-> "stat"]>>
  /\ visitedPaths = {}
  /\ toc = << >>
  /\ entered = << >>
  /\ fret = "none"

notFind == <<packVars, planVars, poolVars, execVars, ipcVars, genVars, assetVars,
             invVars, flagWorkers, exec>>

\* The innermost call, and the stack with it replaced or removed.
Top == fstack[Len(fstack)]

Below == SubSeq(fstack, 1, Len(fstack) - 1)

\* dirpath := dir; if len(prefix) > 0 { dirpath, _ = filepath.Abs(dirpath) }
DirPath(dir) == IF fin.prefix # NoPrefix THEN FAbs(dir) ELSE dir

\* A call returns err.  The recursive calls drop the result; Run returns
\* the outermost call's.
FindReturns(err) ==
  /\ fstack' = Below
  /\ fret' = IF Len(fstack) = 1 THEN err ELSE fret

\* fi, err := os.Stat(dirpath); if err != nil { return err }
FindStatFails ==
  /\ fstack # << >> /\ Top.pc = "stat"
  /\ Stat(DirPath(Top.dir), fin.target) \notin {"dir", "file"}
  /\ FindReturns("err")
  /\ UNCHANGED <<fin, visitedPaths, toc, entered>>
  /\ UNCHANGED notFind

\* fi.IsDir(): visitedPaths[dirpath] = true; Open, Readdir, sort.
FindOpenDir ==
  /\ fstack # << >> /\ Top.pc = "stat"
  /\ Stat(DirPath(Top.dir), fin.target) = "dir"
  /\ visitedPaths' = visitedPaths \cup {DirPath(Top.dir)}
  /\ entered' = Append(entered, RealOf(DirPath(Top.dir), fin.target).el)
  /\ fstack' = Append(Below,
                 [dir |-> Top.dir, dirpath |-> DirPath(Top.dir), pc |-> "loop",
                  list |-> Readdir(RealOf(DirPath(Top.dir), fin.target).el)])
  /\ UNCHANGED <<fin, toc, fret>>
  /\ UNCHANGED notFind

\* The loop's next entry, its asset.Path and its kind.
Entry == Head(Top.list)

AssetPath == FJoin(Top.dirpath, Entry)

AtEntry(kind) ==
  /\ fstack # << >> /\ Top.pc = "loop" /\ Top.list # << >>
  /\ EntryKind(RealOf(Top.dirpath, fin.target).el, Entry) = kind

\* The calling frame with the entry done.
Advanced == Append(Below, [Top EXCEPT !.list = Tail(@)])

\* file.IsDir(): if recursive { visitedPaths[asset.Path] = true;
\* findFiles(filepath.Join(dir, file.Name()), ...) }; continue
FindDirEntry ==
  /\ AtEntry("dir")
  /\ IF fin.recursive
     THEN /\ visitedPaths' = visitedPaths \cup {AssetPath}
          /\ fstack' = Append(Advanced, [dir |-> FJoin(Top.dir, Entry), pc |-> "stat"])
     ELSE /\ visitedPaths' = visitedPaths
          /\ fstack' = Advanced
  /\ UNCHANGED <<fin, toc, entered, fret>>
  /\ UNCHANGED notFind

\* linkPath of os.Readlink(asset.Path); if !filepath.IsAbs(linkPath) {
\* linkPath = filepath.Abs(dirpath + "/" + linkPath) }
LinkPath ==
  IF fin.target.abs THEN fin.target
  ELSE FAbs([abs |-> Top.dirpath.abs, el |-> Top.dirpath.el \o fin.target.el])

\* A symbolic link: if linkPath is not in visitedPaths, put it there and
\* findFiles(asset.Path, ...); continue
FindLinkEntry ==
  /\ AtEntry("link")
  /\ IF LinkPath \notin visitedPaths
     THEN /\ visitedPaths' = visitedPaths \cup {LinkPath}
          /\ fstack' = Append(Advanced, [dir |-> AssetPath, pc |-> "stat"])
     ELSE /\ visitedPaths' = visitedPaths
          /\ fstack' = Advanced
  /\ UNCHANGED <<fin, toc, entered, fret>>
  /\ UNCHANGED notFind

\* asset.Name: asset.Path without the prefix when it has it, else
\* filepath.Join(dir, file.Name()); then without its leading slash.
AssetNameOf ==
  IF fin.prefix = NoPrefix THEN AssetPath.el
  ELSE IF AssetPath.abs /\ HasPrefix(AssetPath.el, FAbs(fin.prefix).el)
  THEN SubSeq(AssetPath.el, Len(FAbs(fin.prefix).el) + 1, Len(AssetPath.el))
  ELSE FJoin(Top.dir, Entry).el

\* A regular file: *toc = append(*toc, asset), with the absolute Path.
FindFileEntry ==
  /\ AtEntry("file")
  /\ toc' = Append(toc, [Name |-> AssetNameOf, Path |-> FAbs(AssetPath)])
  /\ fstack' = Advanced
  /\ UNCHANGED <<fin, visitedPaths, entered, fret>>
  /\ UNCHANGED notFind

\* The loop is over: return nil.
FindDone ==
  /\ fstack # << >> /\ Top.pc = "loop" /\ Top.list = << >>
  /\ FindReturns("nil")
  /\ UNCHANGED <<fin, visitedPaths, toc, entered>>
  /\ UNCHANGED notFind

NextFind ==
  \/ FindStatFails
  \/ FindOpenDir
  \/ FindDirEntry
  \/ FindLinkEntry
  \/ FindFileEntry
  \/ FindDone

SpecFind == InitFind /\ [][NextFind]_vars

====
